---- MODULE Spec2Model ----
(***************************************************************************)
(* Trakt -> Emby reconciliation core (src/sync_Trakt_to_emby.py).          *)
(*                                                                         *)
(* Strings the code inspects character by character (titles, IMDB ids,    *)
(* file paths) are sequences of one-character strings; every other string  *)
(* (collection names, library ids, reasons) is an atomic TLA+ string.      *)
(* Python's None is modelled by the falsy value of the field's own type:   *)
(* 0 for a year or a numeric id, the empty sequence for a character        *)
(* string, "" for an Emby id; the code tests these fields for truthiness   *)
(* before it compares them, so None and the falsy value behave alike.      *)
(***************************************************************************)
EXTENDS Integers, Sequences, FiniteSets, TLC

VARIABLES
    missing_items,      \* _missing_items: list of unresolved records
    ignored_items,      \* _ignored_items: list of ignored records
    emby_id_mapping,    \* _emby_id_mapping: set of [key, emby_id, type, title, last_updated]
    library_cache,      \* _library_cache: cache key -> library item sequence
    missing_file,       \* contents of missing_items.json
    ignored_file,       \* contents of ignored_items.json
    mapping_file,       \* contents of emby_id_mappings.json
    now,                \* datetime.now(), a counter
    emby_collections,   \* media server: the collections, each [Id, Name, Items]
    last_call,          \* the last call made: its name, arguments and return value
    emby_library,       \* media server: the library items, in the order it lists them
    norm_in,            \* normalize_title: the argument
    norm_out,           \* normalize_title: results of the first and second application
    sync                \* sync_all_trakt_lists: its position, the list being synced,
                        \* the progress callbacks made and the lists finished

storeVars == <<missing_items, ignored_items, emby_id_mapping, library_cache,
               missing_file, ignored_file, mapping_file, now>>
serverVars == <<emby_collections, emby_library>>
normVars == <<norm_in, norm_out>>
idleVars == <<normVars, sync>>
vars == <<storeVars, serverVars, last_call, normVars, sync>>

\* None for a year (ProductionYear, year) and for a numeric Trakt/TMDB/TVDB id
NoYear == 0
NoNum == 0
\* None for an Emby item or collection id
NoEmbyId == ""

(***************************************************************************)
(* Characters                                                              *)
(***************************************************************************)
Digits == {"0", "1", "2", "3", "4", "5", "6", "7", "8", "9"}
LowerLetters == {"a", "b", "c", "d", "e", "f", "g", "h", "i", "j", "k", "l", "m",
                 "n", "o", "p", "q", "r", "s", "t", "u", "v", "w", "x", "y", "z"}
UpperLetters == {"A", "B", "C", "D", "E", "F", "G", "H", "I", "J", "K", "L", "M",
                 "N", "O", "P", "Q", "R", "S", "T", "U", "V", "W", "X", "Y", "Z"}

\* \s of the re module and the separators of str.split()
IsSpace(c) == c \in {" ", "\t", "\n"}
\* \d
IsDigit(c) == c \in Digits
\* \w
IsWord(c) == c \in LowerLetters \cup UpperLetters \cup Digits \cup {"_"}

\* str.lower() on one character
LowerChar(c) ==
    CASE c = "A" -> "a" [] c = "D" -> "d" [] c = "M" -> "m" [] c = "T" -> "t"
      [] c = "U" -> "u" [] c = "N" -> "n" [] c = "E" -> "e" [] c = "X" -> "x"
      [] c = "B" -> "b" [] c = "C" -> "c" [] c = "F" -> "f" [] c = "G" -> "g"
      [] c = "H" -> "h" [] c = "I" -> "i" [] c = "J" -> "j" [] c = "K" -> "k"
      [] c = "L" -> "l" [] c = "O" -> "o" [] c = "P" -> "p" [] c = "Q" -> "q"
      [] c = "R" -> "r" [] c = "S" -> "s" [] c = "V" -> "v" [] c = "W" -> "w"
      [] c = "Y" -> "y" [] c = "Z" -> "z"
      [] OTHER -> c

\* str.lower()
Lower(s) == [i \in 1..Len(s) |-> LowerChar(s[i])]

\* s[i:] with i counted from 1
Drop(s, i) == SubSeq(s, i, Len(s))

\* s.startswith(p)
StartsWith(s, p) == Len(s) >= Len(p) /\ SubSeq(s, 1, Len(p)) = p

\* s[i:].startswith(p), i counted from 1
StartsWithAt(s, i, p) == i + Len(p) - 1 <= Len(s) /\ SubSeq(s, i, i + Len(p) - 1) = p

\* the first position >= i that holds no whitespace (Len(s)+1 when there is none)
RECURSIVE SkipSpaces(_, _)
SkipSpaces(s, i) ==
    IF i <= Len(s) /\ IsSpace(s[i]) THEN SkipSpaces(s, i + 1) ELSE i

\* the first position >= i that holds no digit
RECURSIVE SkipDigits(_, _)
SkipDigits(s, i) ==
    IF i <= Len(s) /\ IsDigit(s[i]) THEN SkipDigits(s, i + 1) ELSE i

(***************************************************************************)
(* normalize_title                                                         *)
(***************************************************************************)
\* \(\d{4}\) matches at position j
IsParenYear(s, j) ==
    /\ j + 5 <= Len(s)
    /\ s[j] = "("
    /\ \A k \in 1..4 : IsDigit(s[j + k])
    /\ s[j + 5] = ")"

\* re.sub(r'\s*\(\d{4}\)\s*', '', title), scanning from position i
RECURSIVE RemoveYearFrom(_, _)
RemoveYearFrom(s, i) ==
    IF i > Len(s) THEN <<>>
    ELSE LET j == SkipSpaces(s, i)
         IN  IF IsParenYear(s, j)
             THEN RemoveYearFrom(s, SkipSpaces(s, j + 6))
             ELSE <<s[i]>> \o RemoveYearFrom(s, i + 1)

RemoveYear(s) == RemoveYearFrom(s, 1)

\* re.sub(r'[^\w\s]', '', title)
RemoveSpecial(s) == SelectSeq(s, LAMBDA c : IsWord(c) \/ IsSpace(c))

\* the prefix p followed by \s+ opens s
PrefixThenSpaces(s, p) ==
    StartsWith(s, p) /\ Len(s) > Len(p) /\ IsSpace(s[Len(p) + 1])

\* s without the prefix p and the whitespace run after it
DropPrefixAndSpaces(s, p) == Drop(s, SkipSpaces(s, Len(p) + 1))

\* re.sub(r'^(the|a|an)\s+', '', title)
RemoveArticle(s) ==
    IF PrefixThenSpaces(s, <<"t", "h", "e">>) THEN DropPrefixAndSpaces(s, <<"t", "h", "e">>)
    ELSE IF PrefixThenSpaces(s, <<"a">>) THEN DropPrefixAndSpaces(s, <<"a">>)
    ELSE IF PrefixThenSpaces(s, <<"a", "n">>) THEN DropPrefixAndSpaces(s, <<"a", "n">>)
    ELSE s

Marvel == <<"m", "a", "r", "v", "e", "l">>

\* re.sub(r'^marvel\'?s\s+', '', title)
RemoveMarvel(s) ==
    IF PrefixThenSpaces(s, Marvel \o <<"'", "s">>) THEN DropPrefixAndSpaces(s, Marvel \o <<"'", "s">>)
    ELSE IF PrefixThenSpaces(s, Marvel \o <<"s">>) THEN DropPrefixAndSpaces(s, Marvel \o <<"s">>)
    ELSE s

\* title.split(): the words of s from position i on, in order
RECURSIVE SplitFrom(_, _)
SplitFrom(s, i) ==
    LET b == SkipSpaces(s, i)
        e == CHOOSE k \in b..(Len(s) + 1) :
                 /\ \A m \in b..(k - 1) : ~IsSpace(s[m])
                 /\ (k = Len(s) + 1 \/ IsSpace(s[k]))
    IN  IF b > Len(s) THEN <<>>
        ELSE <<SubSeq(s, b, e - 1)>> \o SplitFrom(s, e)

Split(s) == SplitFrom(s, 1)

\* ' '.join(words)
RECURSIVE Join(_)
Join(words) ==
    IF words = <<>> THEN <<>>
    ELSE IF Len(words) = 1 THEN words[1]
    ELSE words[1] \o <<" ">> \o Join(Tail(words))

normalize_title(title) ==
    Join(Split(RemoveMarvel(RemoveArticle(RemoveSpecial(RemoveYear(Lower(title)))))))

(***************************************************************************)
(* Python dicts and lists                                                  *)
(***************************************************************************)
\* {}
EmptyDict == [x \in {} |-> x]

\* d.get(k, default)
Get(d, k, default) == IF k \in DOMAIN d THEN d[k] ELSE default

\* d[k] = v
Put(d, k, v) == [x \in DOMAIN d \cup {k} |-> IF x = k THEN v ELSE d[x]]

\* del d[k]
Del(d, k) == [x \in DOMAIN d \ {k} |-> d[x]]

\* del l[i], i counted from 0
DelAt(l, i) == SubSeq(l, 1, i) \o SubSeq(l, i + 2, Len(l))

\* l[i], i counted from 0
At(l, i) == l[i + 1]

\* the list in the order given
GivenOrder(l) == l

\* sorted(l, reverse=True) of a list of integers
RECURSIVE SortedReverse(_)
SortedReverse(l) ==
    IF l = <<>> THEN <<>>
    ELSE LET m == CHOOSE k \in 1..Len(l) : \A j \in 1..Len(l) : l[k] >= l[j]
         IN  <<l[m]>> \o SortedReverse(SubSeq(l, 1, m - 1) \o SubSeq(l, m + 1, Len(l)))

(***************************************************************************)
(* The state the handlers work on, as one record: the module globals, the  *)
(* three JSON files, the clock, the media server's collections, and the    *)
(* outcomes of the HTTP requests the handler is going to make (net).       *)
(* trace and failed are the handler's log: the requests it made and the    *)
(* items it reported as not added to a collection.                         *)
(***************************************************************************)
\* get_EMBY_SERVER(): the configured URL; NoServer is the None it returns when the
\* setting is absent
EMBY_SERVER == "http://emby:8096"
NoServer == ""

St(net) ==
    [missing_items |-> missing_items, ignored_items |-> ignored_items,
     emby_id_mapping |-> emby_id_mapping, library_cache |-> library_cache,
     missing_file |-> missing_file, ignored_file |-> ignored_file,
     mapping_file |-> mapping_file, now |-> now,
     emby_collections |-> emby_collections, emby_library |-> emby_library,
     net |-> net, trace |-> <<>>, failed |-> {}, emby_server |-> EMBY_SERVER]

Commit(st) ==
    /\ missing_items' = st.missing_items
    /\ ignored_items' = st.ignored_items
    /\ emby_id_mapping' = st.emby_id_mapping
    /\ library_cache' = st.library_cache
    /\ missing_file' = st.missing_file
    /\ ignored_file' = st.ignored_file
    /\ mapping_file' = st.mapping_file
    /\ now' = st.now
    /\ emby_collections' = st.emby_collections
    /\ emby_library' = st.emby_library

\* datetime.now(): the clock moves on after every reading
Tick(st) == [st EXCEPT !.now = @ + 1]

(***************************************************************************)
(* Unresolved and Ignored registries                                       *)
(***************************************************************************)
save_missing_items(st) == [st EXCEPT !.missing_file = st.missing_items]

save_ignored_items(st) == [st EXCEPT !.ignored_file = st.ignored_items]

\* returns [st, ret]: ret is the number of records left
clear_missing_items_for_collection(st, collection_name) ==
    LET kept == SelectSeq(st.missing_items,
                          LAMBDA item : "collection_name" \notin DOMAIN item
                                        \/ item.collection_name # collection_name)
    IN  [st |-> save_missing_items([st EXCEPT !.missing_items = kept]),
         ret |-> Len(kept)]

\* item.get('ids', {}).get('trakt')
TraktIdOf(item) == Get(Get(item, "ids", [trakt |-> NoNum]), "trakt", NoNum)

ignore_missing_item(st, item_index) ==
    IF item_index < 0 \/ item_index >= Len(st.missing_items)
    THEN [st |-> st, ret |-> FALSE]
    ELSE LET item == Put(At(st.missing_items, item_index), "ignored_on", st.now)
             s1 == [st EXCEPT !.ignored_items = Append(@, item),
                              !.missing_items = DelAt(@, item_index)]
         IN  [st |-> Tick(save_ignored_items(save_missing_items(s1))), ret |-> TRUE]

\* a record that keeps its ignored_on mark
StillMarked(item, t) == Put(item, "last_checked", t)

\* the record unignore_item puts back: ignored_on deleted, last_checked set
Unignored(item, t) == Put(Del(item, "ignored_on"), "last_checked", t)

unignore_item(st, item_index) ==
    IF item_index < 0 \/ item_index >= Len(st.ignored_items)
    THEN [st |-> st, ret |-> FALSE]
    ELSE LET item == Unignored(At(st.ignored_items, item_index), st.now)
             s1 == [st EXCEPT !.missing_items = Append(@, item),
                              !.ignored_items = DelAt(@, item_index)]
         IN  [st |-> Tick(save_ignored_items(save_missing_items(s1))), ret |-> TRUE]

\* the loop of ignore_missing_items over the sorted indices; acc counts the moves
RECURSIVE IgnoreLoop(_, _, _)
IgnoreLoop(st, indices, acc) ==
    IF indices = <<>> THEN [st |-> st, count |-> acc]
    ELSE LET index == Head(indices)
         IN  IF index < 0 \/ index >= Len(st.missing_items)
             THEN IgnoreLoop(st, Tail(indices), acc)
             ELSE LET item == Put(At(st.missing_items, index), "ignored_on", st.now)
                      s1 == [st EXCEPT !.ignored_items = Append(@, item),
                                       !.missing_items = DelAt(@, index)]
                  IN  IgnoreLoop(Tick(s1), Tail(indices), acc + 1)

ignore_missing_items(st, item_indices) ==
    IF item_indices = <<>> THEN [st |-> st, ret |-> FALSE]
    ELSE LET r == IgnoreLoop(st, SortedReverse(item_indices), 0)
         IN  [st |-> save_ignored_items(save_missing_items(r.st)), ret |-> r.count > 0]

\* the index (from 1) of the first record of l that satisfies P, 0 when none does
FirstIndex(l, P(_)) ==
    IF \E i \in 1..Len(l) : P(l[i])
    THEN CHOOSE i \in 1..Len(l) : P(l[i]) /\ \A j \in 1..(i - 1) : ~P(l[j])
    ELSE 0

\* a test that finds every collection recorded already
AlwaysHasCollection(collections, collection_name) == TRUE

\* a test that finds no collection recorded
NeverHasCollection(collections, collection_name) == FALSE

\* any(coll.get('name') == collection_name for coll in collections)
HasCollection(collections, collection_name) ==
    \E i \in 1..Len(collections) : collections[i].name = collection_name

\* a test that finds no ignored record
NoIgnoredMatch(ignored_item, trakt_id) == FALSE

\* ignored_trakt_id and ignored_trakt_id == trakt_id
IgnoredMatch(ignored_item, trakt_id) ==
    TraktIdOf(ignored_item) # NoNum /\ TraktIdOf(ignored_item) = trakt_id

add_to_missing_items(st, item_data, item_type, collection_name, library_id, reason) ==
    LET trakt_id == TraktIdOf(item_data)
        ig == FirstIndex(st.ignored_items, LAMBDA r : IgnoredMatch(r, trakt_id))
        ex == FirstIndex(st.missing_items,
                         LAMBDA r : trakt_id # NoNum /\ TraktIdOf(r) # NoNum
                                    /\ trakt_id = TraktIdOf(r))
        collection_info == [name |-> collection_name, library_id |-> library_id]
    IN  IF ig # 0
        THEN LET ignored_item == st.ignored_items[ig]
                 colls == Get(ignored_item, "collections", <<>>)
             IN  IF HasCollection(colls, collection_name)
                 THEN [st |-> [st EXCEPT !.ignored_items[ig] =
                                   Put(ignored_item, "collections", colls)],
                       ret |-> FALSE]
                 ELSE [st |-> save_ignored_items(
                                [st EXCEPT !.ignored_items[ig] =
                                   Put(ignored_item, "collections",
                                       Append(colls, collection_info))]),
                       ret |-> FALSE]
        ELSE IF ex # 0
        THEN LET existing_item == st.missing_items[ex]
                 colls == IF "collections" \in DOMAIN existing_item
                          THEN existing_item.collections
                          ELSE IF "collection_name" \in DOMAIN existing_item
                          THEN <<[name |-> existing_item.collection_name,
                                  library_id |-> Get(existing_item, "library_id", "")]>>
                          ELSE <<>>
                 merged == IF HasCollection(colls, collection_name) THEN colls
                           ELSE Append(colls, collection_info)
                 updated == Put(Put(existing_item, "collections", merged),
                                "last_checked", st.now)
             IN  [st |-> Tick(save_missing_items(
                                [st EXCEPT !.missing_items[ex] = updated])),
                  ret |-> TRUE]
        ELSE LET item_to_add == [title |-> item_data.title, year |-> item_data.year,
                                 ids |-> item_data.ids, type |-> item_type,
                                 reason |-> reason, last_checked |-> st.now,
                                 collections |-> <<collection_info>>]
             IN  [st |-> Tick(save_missing_items(
                                [st EXCEPT !.missing_items = Append(@, item_to_add)])),
                  ret |-> TRUE]

(***************************************************************************)
(* HTTP requests.  st.net lists the outcomes of the requests the handler   *)
(* is going to make, in order: "ok" (success status), "status" (another    *)
(* status) or "error" (requests raises); once the list is used up every    *)
(* request succeeds.  st.trace records the requests made and the calls of  *)
(* get_emby_library_items.                                                 *)
(***************************************************************************)
Outcomes == {"ok", "status", "error"}

Outcome(st) == IF st.net = <<>> THEN "ok" ELSE Head(st.net)

Request(st, what) ==
    [st EXCEPT !.net = IF @ = <<>> THEN @ ELSE Tail(@), !.trace = Append(@, what)]

(***************************************************************************)
(* Mapping Store                                                           *)
(***************************************************************************)
save_emby_id_mappings(st) == [st EXCEPT !.mapping_file = st.emby_id_mapping]

\* f"{item_type}_{trakt_id}": the same text for the integer id and for str(id)
MappingKey(item_type, trakt_id) == <<item_type, trakt_id>>

add_emby_id_mapping(st, trakt_id, emby_id, item_type, title) ==
    Tick(save_emby_id_mappings(
        [st EXCEPT !.emby_id_mapping =
            Put(@, MappingKey(item_type, trakt_id),
                [emby_id |-> emby_id, type |-> item_type, title |-> title,
                 last_updated |-> st.now])]))

\* a store in which no lookup finds a record
mapping_without_records(st, item_type, trakt_id) == NoEmbyId

get_emby_id_from_mapping(st, item_type, trakt_id) ==
    IF MappingKey(item_type, trakt_id) \in DOMAIN st.emby_id_mapping
    THEN st.emby_id_mapping[MappingKey(item_type, trakt_id)].emby_id
    ELSE NoEmbyId

(***************************************************************************)
(* Library Index                                                           *)
(***************************************************************************)
EMBY_MOVIES_LIBRARY_ID == "L1"
EMBY_TV_LIBRARY_ID == "L2"

\* what GET /Items?IncludeItemTypes=..&ParentId=.. lists
ServerItems(st, item_type, library_id) ==
    SelectSeq(st.emby_library, LAMBDA it : it.Type = item_type /\ it.ParentId = library_id)

\* a cache that is never used
NeverCacheHit(st, cache_key, force_refresh) == FALSE

\* not force_refresh and cache_key in _library_cache
CacheHit(st, cache_key, force_refresh) ==
    ~force_refresh /\ cache_key \in DOMAIN st.library_cache

\* returns [st, ret, raised]: ret is the item list; raised when the call ends by
\* the AttributeError of None.rstrip('/'), which is outside the try
get_emby_library_items(st, item_type, library_id, force_refresh) ==
    LET cache_key == <<item_type, library_id>>
        s0 == [st EXCEPT !.trace = Append(@, "get_emby_library_items")]
        lib == IF library_id # "" THEN library_id
               ELSE IF item_type = "Movie" THEN EMBY_MOVIES_LIBRARY_ID
               ELSE IF item_type = "Series" THEN EMBY_TV_LIBRARY_ID
               ELSE ""
    IN  IF CacheHit(st, cache_key, force_refresh)
        THEN [st |-> s0, ret |-> st.library_cache[cache_key], raised |-> FALSE]
        ELSE IF lib = "" THEN [st |-> s0, ret |-> <<>>, raised |-> FALSE]
        ELSE IF st.emby_server = NoServer
        THEN [st |-> s0, ret |-> <<>>, raised |-> TRUE]
        ELSE LET s1 == Request(s0, "GET /Items")
             IN  IF Outcome(s0) = "ok"
                 THEN LET items == ServerItems(st, item_type, lib)
                      IN  [st |-> [s1 EXCEPT !.library_cache = Put(@, cache_key, items)],
                           ret |-> items, raised |-> FALSE]
                 ELSE [st |-> s1, ret |-> <<>>, raised |-> FALSE]

clear_library_cache(st) == [st EXCEPT !.library_cache = EmptyDict]

\* str.strip()
RECURSIVE RStrip(_)
RStrip(s) == IF s # <<>> /\ IsSpace(s[Len(s)]) THEN RStrip(SubSeq(s, 1, Len(s) - 1)) ELSE s

Strip(s) == RStrip(Drop(s, SkipSpaces(s, 1)))

\* str(n) for n >= 0
DigitOf(d) ==
    CASE d = 0 -> "0" [] d = 1 -> "1" [] d = 2 -> "2" [] d = 3 -> "3" [] d = 4 -> "4"
      [] d = 5 -> "5" [] d = 6 -> "6" [] d = 7 -> "7" [] d = 8 -> "8" [] d = 9 -> "9"

RECURSIVE Str(_)
Str(n) == IF n < 10 THEN <<DigitOf(n)>> ELSE Str(n \div 10) \o <<DigitOf(n % 10)>>

TT == <<"t", "t">>
ImdbTag == <<"[", "i", "m", "d", "b", "i", "d", "-">>

\* re.search(r'\[imdbid-(tt\d+)\]', path) matches at position i
ImdbTagAt(path, i) ==
    /\ StartsWithAt(path, i, ImdbTag \o TT)
    /\ LET e == SkipDigits(path, i + 10)
       IN  e > i + 10 /\ e <= Len(path) /\ path[e] = "]"

\* the id in the leftmost [imdbid-tt<digits>] of the path, <<>> (None) without one
extract_imdb_from_path(path) ==
    IF \E i \in 1..Len(path) : ImdbTagAt(path, i)
    THEN LET i == CHOOSE k \in 1..Len(path) :
                      ImdbTagAt(path, k) /\ \A j \in 1..(k - 1) : ~ImdbTagAt(path, j)
         IN  SubSeq(path, i + 8, SkipDigits(path, i + 10) - 1)
    ELSE <<>>

\* item.get('ProviderIds', {}).get(p, '').strip()
ProviderId(lib_item, p) == Strip(Get(Get(lib_item, "ProviderIds", EmptyDict), p, <<>>))

\* the keys under which process_item enters a library item into imdb_lookup
ImdbLookupKeys(lib_item) ==
    LET emby_imdb_id == ProviderId(lib_item, "Imdb")
    IN  IF emby_imdb_id = <<>> THEN {}
        ELSE {emby_imdb_id} \cup
             (IF ~StartsWith(emby_imdb_id, TT) /\ Len(emby_imdb_id) > 5
              THEN {TT \o emby_imdb_id}
              ELSE IF StartsWith(emby_imdb_id, TT) THEN {Drop(emby_imdb_id, 3)}
              ELSE {})

TmdbLookupKeys(lib_item) ==
    IF ProviderId(lib_item, "Tmdb") = <<>> THEN {} ELSE {ProviderId(lib_item, "Tmdb")}

TvdbLookupKeys(lib_item) ==
    IF ProviderId(lib_item, "Tvdb") = <<>> THEN {} ELSE {ProviderId(lib_item, "Tvdb")}

PathLookupKeys(lib_item) ==
    IF extract_imdb_from_path(Get(lib_item, "Path", <<>>)) = <<>> THEN {}
    ELSE {extract_imdb_from_path(Get(lib_item, "Path", <<>>))}

\* key in lookup, for a dict filled item by item with lookup[k] = Id for k in Keys(item)
InLookup(library_items, Keys(_), key) ==
    \E i \in 1..Len(library_items) : key \in Keys(library_items[i])

\* lookup[key]: the last item that entered the key wins
Lookup(library_items, Keys(_), key) ==
    LET i == CHOOSE k \in 1..Len(library_items) :
                 /\ key \in Keys(library_items[k])
                 /\ \A j \in (k + 1)..Len(library_items) : key \notin Keys(library_items[j])
    IN  library_items[i].Id

(***************************************************************************)
(* process_item                                                            *)
(***************************************************************************)
\* process_item's "usable IDs" test on the ids of the entry
HasUsableIds(ids) ==
    /\ DOMAIN ids # {}
    /\ \/ Get(ids, "imdb", <<>>) # <<>>
       \/ Get(ids, "tmdb", NoNum) # NoNum
       \/ Get(ids, "trakt", NoNum) # NoNum

\* imdb_id, tmdb_id, tvdb_id as process_item extracts them (<<>> for None)
EntryImdb(ids) == Strip(Get(ids, "imdb", <<>>))
EntryTmdb(ids) == IF Get(ids, "tmdb", NoNum) # NoNum THEN Strip(Str(ids.tmdb)) ELSE <<>>
EntryTvdb(ids) == IF Get(ids, "tvdb", NoNum) # NoNum THEN Strip(Str(ids.tvdb)) ELSE <<>>

\* normalized_imdb_id and normalized_imdb_id_no_prefix
NormalizedImdb(imdb_id) ==
    IF imdb_id # <<>> /\ ~StartsWith(imdb_id, TT) THEN TT \o imdb_id ELSE imdb_id
NormalizedImdbNoPrefix(imdb_id) ==
    IF imdb_id # <<>> /\ StartsWith(imdb_id, TT) THEN Drop(imdb_id, 3) ELSE imdb_id

\* the five strategies of process_item, each on its own: the Emby id it finds
\* or NoEmbyId
MatchImdbMetadata(library_items, ids) ==
    LET with == NormalizedImdb(EntryImdb(ids))
        without == NormalizedImdbNoPrefix(EntryImdb(ids))
    IN  IF with # <<>> /\ InLookup(library_items, ImdbLookupKeys, with)
        THEN Lookup(library_items, ImdbLookupKeys, with)
        ELSE IF without # <<>> /\ InLookup(library_items, ImdbLookupKeys, without)
        THEN Lookup(library_items, ImdbLookupKeys, without)
        ELSE NoEmbyId

MatchImdbPath(library_items, ids) ==
    LET with == NormalizedImdb(EntryImdb(ids))
    IN  IF with # <<>> /\ InLookup(library_items, PathLookupKeys, with)
        THEN Lookup(library_items, PathLookupKeys, with)
        ELSE NoEmbyId

MatchTmdb(library_items, ids) ==
    IF EntryTmdb(ids) # <<>> /\ InLookup(library_items, TmdbLookupKeys, EntryTmdb(ids))
    THEN Lookup(library_items, TmdbLookupKeys, EntryTmdb(ids))
    ELSE NoEmbyId

MatchTvdb(library_items, ids, type) ==
    IF EntryTvdb(ids) # <<>> /\ InLookup(library_items, TvdbLookupKeys, EntryTvdb(ids))
       /\ type = "show"
    THEN Lookup(library_items, TvdbLookupKeys, EntryTvdb(ids))
    ELSE NoEmbyId

\* step 5: lib_name.lower() == title.lower() and lib_year == year, first item wins
NameYearEqual(lib_item, title, year) ==
    /\ Lower(Get(lib_item, "Name", <<>>)) = Lower(title)
    /\ Get(lib_item, "ProductionYear", NoYear) = year

MatchNameYear(library_items, title, year) ==
    LET i == FirstIndex(library_items, LAMBDA it : NameYearEqual(it, title, year))
    IN  IF year # NoYear /\ i # 0 THEN library_items[i].Id ELSE NoEmbyId

\* the chain with the title step ahead of the id steps
MatchChainTitleFirst(library_items, media, type) ==
    LET ids == media.ids
    IN  IF MatchNameYear(library_items, media.title, media.year) # NoEmbyId
        THEN MatchNameYear(library_items, media.title, media.year)
        ELSE IF MatchImdbMetadata(library_items, ids) # NoEmbyId
        THEN MatchImdbMetadata(library_items, ids)
        ELSE IF MatchImdbPath(library_items, ids) # NoEmbyId
        THEN MatchImdbPath(library_items, ids)
        ELSE IF MatchTmdb(library_items, ids) # NoEmbyId
        THEN MatchTmdb(library_items, ids)
        ELSE MatchTvdb(library_items, ids, type)

\* the if/elif chain of process_item followed by step 5
MatchChain(library_items, media, type) ==
    LET ids == media.ids
    IN  IF MatchImdbMetadata(library_items, ids) # NoEmbyId
        THEN MatchImdbMetadata(library_items, ids)
        ELSE IF MatchImdbPath(library_items, ids) # NoEmbyId
        THEN MatchImdbPath(library_items, ids)
        ELSE IF MatchTmdb(library_items, ids) # NoEmbyId
        THEN MatchTmdb(library_items, ids)
        ELSE IF MatchTvdb(library_items, ids, type) # NoEmbyId
        THEN MatchTvdb(library_items, ids, type)
        ELSE MatchNameYear(library_items, media.title, media.year)

\* returns [st, ret]: ret is <<>> (None) or <<[id, type]>>
process_item(st, item, library_id, collection_name) ==
    LET media == item.media
        ids == media.ids
        trakt_id == Get(ids, "trakt", NoNum)
        item_type == IF item.type = "movie" THEN "movie" ELSE "show"
        stored == IF trakt_id # NoNum THEN get_emby_id_from_mapping(st, item_type, trakt_id)
                  ELSE NoEmbyId
        fetched == get_emby_library_items(st, IF item.type = "movie" THEN "Movie" ELSE "Series",
                                          library_id, FALSE)
        matched_emby_id == MatchChain(fetched.ret, media, item.type)
    IN  IF ~HasUsableIds(ids)
        THEN [st |-> add_to_missing_items(st, media, item.type, collection_name, library_id,
                                          "No usable IDs available").st,
              ret |-> <<>>]
        ELSE IF stored # NoEmbyId
        THEN [st |-> st, ret |-> <<[id |-> stored, type |-> item.type]>>]
        ELSE IF matched_emby_id # NoEmbyId
        THEN [st |-> IF trakt_id # NoNum
                     THEN add_emby_id_mapping(fetched.st, trakt_id, matched_emby_id,
                                              item_type, media.title)
                     ELSE fetched.st,
              ret |-> <<[id |-> matched_emby_id, type |-> item.type]>>]
        ELSE [st |-> add_to_missing_items(fetched.st, media, item.type, collection_name,
                                          library_id,
                                          "No matching IDs found in Emby library").st,
              ret |-> <<>>]

(***************************************************************************)
(* search_movie_in_emby and search_tv_show_in_emby                         *)
(***************************************************************************)
\* a in b, for strings
IsSubstring(a, b) == \E i \in 1..(Len(b) - Len(a) + 1) : SubSeq(b, i, i + Len(a) - 1) = a

\* set(s.split())
WordSet(s) == {Split(s)[i] : i \in 1..Len(Split(s))}

Max(a, b) == IF a >= b THEN a ELSE b
Abs(a) == IF a >= 0 THEN a ELSE 0 - a

\* scores are fractions <<numerator, denominator>>
FracGt(a, b) == a[1] * b[2] > b[1] * a[2]

\* len(common_words) / max(len(title_words), len(item_words))
OverlapScore(title_words, item_words) ==
    <<Cardinality(title_words \cap item_words),
      Max(Cardinality(title_words), Cardinality(item_words))>>

\* the fuzzy loop of both search functions from item i on; best is the index of
\* best_match (0 for None)
RECURSIVE FuzzyLoop(_, _, _, _, _, _)
FuzzyLoop(library_items, i, normalized_title, year, best, best_score) ==
    IF i > Len(library_items) THEN [best |-> best, score |-> best_score]
    ELSE LET item == library_items[i]
             item_year == Get(item, "ProductionYear", NoYear)
             normalized_item_title == normalize_title(Get(item, "Name", <<>>))
             contained == IF (IsSubstring(normalized_title, normalized_item_title)
                               \/ IsSubstring(normalized_item_title, normalized_title))
                             /\ (best = 0 \/ FracGt(<<9, 10>>, best_score))
                          THEN [best |-> i, score |-> <<9, 10>>]
                          ELSE [best |-> best, score |-> best_score]
             title_words == WordSet(normalized_title)
             item_words == WordSet(normalized_item_title)
             overlap == IF title_words # {} /\ item_words # {}
                           /\ FracGt(OverlapScore(title_words, item_words), <<6, 10>>)
                           /\ FracGt(OverlapScore(title_words, item_words), contained.score)
                        THEN [best |-> i, score |-> OverlapScore(title_words, item_words)]
                        ELSE contained
         IN  IF year # NoYear /\ item_year # NoYear /\ Abs(year - item_year) > 1
             THEN FuzzyLoop(library_items, i + 1, normalized_title, year, best, best_score)
             ELSE IF normalized_title = normalized_item_title
             THEN [best |-> i, score |-> <<1, 1>>]
             ELSE FuzzyLoop(library_items, i + 1, normalized_title, year,
                            overlap.best, overlap.score)

\* the fuzzy title fallback of both search functions: the Emby id or NoEmbyId
FuzzyTitleMatch(library_items, title, year) ==
    LET r == FuzzyLoop(library_items, 1, normalize_title(title), year, 0, <<0, 1>>)
    IN  IF r.best # 0 /\ ~FracGt(<<6, 10>>, r.score) THEN library_items[r.best].Id
        ELSE NoEmbyId

\* emby_tmdb_id == tmdb_id and emby_tvdb_id == tvdb_id in the search functions: the
\* library's id is a str, the entry's an int as Trakt's JSON gives it, and in Python
\* a str never equals an int
StrEqualsInt(str_id, int_id) == FALSE

\* the IMDB loop of the search functions: the first item whose metadata id or whose
\* path id equals imdb_id
SearchImdb(library_items, imdb_id) ==
    LET i == FirstIndex(library_items,
                        LAMBDA it : \/ (ProviderId(it, "Imdb") # <<>>
                                        /\ ProviderId(it, "Imdb") = imdb_id)
                                    \/ (extract_imdb_from_path(Get(it, "Path", <<>>)) # <<>>
                                        /\ extract_imdb_from_path(Get(it, "Path", <<>>)) = imdb_id))
    IN  IF imdb_id # <<>> /\ i # 0 THEN library_items[i].Id ELSE NoEmbyId

SearchTmdb(library_items, tmdb_id) ==
    LET i == FirstIndex(library_items,
                        LAMBDA it : ProviderId(it, "Tmdb") # <<>>
                                    /\ StrEqualsInt(ProviderId(it, "Tmdb"), tmdb_id))
    IN  IF tmdb_id # NoNum /\ i # 0 THEN library_items[i].Id ELSE NoEmbyId

SearchTvdb(library_items, tvdb_id) ==
    LET i == FirstIndex(library_items,
                        LAMBDA it : ProviderId(it, "Tvdb") # <<>>
                                    /\ StrEqualsInt(ProviderId(it, "Tvdb"), tvdb_id))
    IN  IF tvdb_id # NoNum /\ i # 0 THEN library_items[i].Id ELSE NoEmbyId

\* what a search function does once it has its result
SearchResult(st, emby_id, trakt_id, item_type, title) ==
    [st |-> IF emby_id # NoEmbyId /\ trakt_id # NoNum
            THEN add_emby_id_mapping(st, trakt_id, emby_id, item_type, title)
            ELSE st,
     ret |-> emby_id]

\* returns [st, ret]: ret is the Emby id or NoEmbyId (None)
search_movie_in_emby(st, title, year, provider_ids, library_id) ==
    LET trakt_id == Get(provider_ids, "trakt", NoNum)
        stored == IF trakt_id # NoNum THEN get_emby_id_from_mapping(st, "movie", trakt_id)
                  ELSE NoEmbyId
        fetched == get_emby_library_items(st, "Movie", library_id, FALSE)
        library_items == fetched.ret
        by_imdb == SearchImdb(library_items, Get(provider_ids, "imdb", <<>>))
        by_tmdb == SearchTmdb(library_items, Get(provider_ids, "tmdb", NoNum))
    IN  IF DOMAIN provider_ids = {} THEN [st |-> st, ret |-> NoEmbyId]
        ELSE IF stored # NoEmbyId THEN [st |-> st, ret |-> stored]
        ELSE IF by_imdb # NoEmbyId
        THEN SearchResult(fetched.st, by_imdb, trakt_id, "movie", title)
        ELSE IF by_tmdb # NoEmbyId
        THEN SearchResult(fetched.st, by_tmdb, trakt_id, "movie", title)
        ELSE SearchResult(fetched.st, FuzzyTitleMatch(library_items, title, year),
                          trakt_id, "movie", title)

search_tv_show_in_emby(st, title, year, provider_ids, library_id) ==
    LET trakt_id == Get(provider_ids, "trakt", NoNum)
        stored == IF trakt_id # NoNum THEN get_emby_id_from_mapping(st, "show", trakt_id)
                  ELSE NoEmbyId
        fetched == get_emby_library_items(st, "Series", library_id, FALSE)
        library_items == fetched.ret
        by_tvdb == SearchTvdb(library_items, Get(provider_ids, "tvdb", NoNum))
        by_tmdb == SearchTmdb(library_items, Get(provider_ids, "tmdb", NoNum))
        by_imdb == SearchImdb(library_items, Get(provider_ids, "imdb", <<>>))
    IN  IF DOMAIN provider_ids = {} THEN [st |-> st, ret |-> NoEmbyId]
        ELSE IF stored # NoEmbyId THEN [st |-> st, ret |-> stored]
        ELSE IF by_tvdb # NoEmbyId
        THEN SearchResult(fetched.st, by_tvdb, trakt_id, "show", title)
        ELSE IF by_tmdb # NoEmbyId
        THEN SearchResult(fetched.st, by_tmdb, trakt_id, "show", title)
        ELSE IF by_imdb # NoEmbyId
        THEN SearchResult(fetched.st, by_imdb, trakt_id, "show", title)
        ELSE SearchResult(fetched.st, FuzzyTitleMatch(library_items, title, year),
                          trakt_id, "show", title)

(***************************************************************************)
(* batch_match_by_provider_ids                                             *)
(***************************************************************************)
\* the lookups of batch_match_by_provider_ids enter the metadata id as it is
BatchImdbKeys(lib_item) ==
    IF ProviderId(lib_item, "Imdb") = <<>> THEN {} ELSE {ProviderId(lib_item, "Imdb")}

\* the provider-id steps for one entry: the Emby id or NoEmbyId
BatchIdMatch(library_items, ids, item_type) ==
    LET imdb_id == Get(ids, "imdb", <<>>)
        tmdb_id == IF Get(ids, "tmdb", NoNum) # NoNum THEN Str(ids.tmdb) ELSE <<>>
        tvdb_id == IF Get(ids, "tvdb", NoNum) # NoNum THEN Str(ids.tvdb) ELSE <<>>
    IN  IF imdb_id # <<>> /\ InLookup(library_items, BatchImdbKeys, imdb_id)
        THEN Lookup(library_items, BatchImdbKeys, imdb_id)
        ELSE IF imdb_id # <<>> /\ InLookup(library_items, PathLookupKeys, imdb_id)
        THEN Lookup(library_items, PathLookupKeys, imdb_id)
        ELSE IF tmdb_id # <<>> /\ InLookup(library_items, TmdbLookupKeys, tmdb_id)
        THEN Lookup(library_items, TmdbLookupKeys, tmdb_id)
        ELSE IF tvdb_id # <<>> /\ item_type = "show"
                /\ InLookup(library_items, TvdbLookupKeys, tvdb_id)
        THEN Lookup(library_items, TvdbLookupKeys, tvdb_id)
        ELSE NoEmbyId

\* title_lookup as a list of [title, id] in the dict's order: a key keeps the place
\* of its first entry and the value of its last
RECURSIVE TitleLookupFrom(_, _, _)
TitleLookupFrom(library_items, i, acc) ==
    IF i > Len(library_items) THEN acc
    ELSE LET normalized == normalize_title(Get(library_items[i], "Name", <<>>))
             at == FirstIndex(acc, LAMBDA e : e.title = normalized)
             entry == [title |-> normalized, id |-> library_items[i].Id]
         IN  IF normalized = <<>> THEN TitleLookupFrom(library_items, i + 1, acc)
             ELSE IF at # 0
             THEN TitleLookupFrom(library_items, i + 1, [acc EXCEPT ![at] = entry])
             ELSE TitleLookupFrom(library_items, i + 1, Append(acc, entry))

TitleLookup(library_items) == TitleLookupFrom(library_items, 1, <<>>)

\* the word-overlap loop over title_lookup.items() from entry i on; best is
\* best_match (NoEmbyId for None)
RECURSIVE BatchOverlapLoop(_, _, _, _, _)
BatchOverlapLoop(title_lookup, i, normalized_title, best, best_score) ==
    IF i > Len(title_lookup) THEN best
    ELSE LET lib_title == title_lookup[i].title
             lib_id == title_lookup[i].id
             title_words == WordSet(normalized_title)
             lib_words == WordSet(lib_title)
             contained == IF (IsSubstring(normalized_title, lib_title)
                               \/ IsSubstring(lib_title, normalized_title))
                             /\ (best = NoEmbyId \/ FracGt(<<9, 10>>, best_score))
                          THEN [best |-> lib_id, score |-> <<9, 10>>]
                          ELSE [best |-> best, score |-> best_score]
             overlap == IF title_words \cap lib_words # {}
                           /\ FracGt(OverlapScore(title_words, lib_words), contained.score)
                        THEN [best |-> lib_id, score |-> OverlapScore(title_words, lib_words)]
                        ELSE contained
         IN  IF Len(Split(lib_title)) <= 1 \/ Cardinality(title_words) <= 1
             THEN BatchOverlapLoop(title_lookup, i + 1, normalized_title, best, best_score)
             ELSE BatchOverlapLoop(title_lookup, i + 1, normalized_title,
                                   overlap.best, overlap.score)

\* the fuzzy step for one entry left over: the Emby id or NoEmbyId
BatchFuzzyMatch(library_items, normalized_title) ==
    LET title_lookup == TitleLookup(library_items)
        direct == FirstIndex(title_lookup, LAMBDA e : e.title = normalized_title)
    IN  IF direct # 0 THEN title_lookup[direct].id
        ELSE BatchOverlapLoop(title_lookup, 1, normalized_title, NoEmbyId, <<6, 10>>)

\* the first loop, from entry i on
RECURSIVE BatchIdLoop(_, _, _, _, _, _, _)
BatchIdLoop(st, items, i, library_items, item_type, matches, missing) ==
    IF i > Len(items) THEN [st |-> st, matches |-> matches, missing |-> missing]
    ELSE LET item == items[i]
             trakt_id == Get(item.ids, "trakt", NoNum)
             stored == IF trakt_id # NoNum
                       THEN get_emby_id_from_mapping(st, item_type, trakt_id)
                       ELSE NoEmbyId
             emby_id == BatchIdMatch(library_items, item.ids, item_type)
         IN  IF stored # NoEmbyId
             THEN BatchIdLoop(st, items, i + 1, library_items, item_type,
                              Put(matches, item.title, stored), missing)
             ELSE IF emby_id # NoEmbyId
             THEN BatchIdLoop(SearchResult(st, emby_id, trakt_id, item_type, item.title).st,
                              items, i + 1, library_items, item_type,
                              Put(matches, item.title, emby_id), missing)
             ELSE BatchIdLoop(st, items, i + 1, library_items, item_type, matches,
                              Append(missing,
                                     [title |-> item.title, year |-> item.year,
                                      ids |-> item.ids,
                                      normalized_title |-> normalize_title(item.title)]))

\* the second loop over a copy of missing, from entry i on; left is what remains
RECURSIVE BatchFuzzyLoop(_, _, _, _, _, _, _)
BatchFuzzyLoop(st, todo, i, library_items, item_type, matches, left) ==
    IF i > Len(todo) THEN [st |-> st, matches |-> matches, missing |-> left]
    ELSE LET item == todo[i]
             emby_id == BatchFuzzyMatch(library_items, item.normalized_title)
             at == FirstIndex(left, LAMBDA e : e = item)
         IN  IF emby_id # NoEmbyId
             THEN BatchFuzzyLoop(SearchResult(st, emby_id, Get(item.ids, "trakt", NoNum),
                                              item_type, item.title).st,
                                 todo, i + 1, library_items, item_type,
                                 Put(matches, item.title, emby_id), DelAt(left, at - 1))
             ELSE BatchFuzzyLoop(st, todo, i + 1, library_items, item_type, matches, left)

\* returns [st, matches, missing]: matches maps a title to the Emby id
batch_match_by_provider_ids(st, items, library_items, item_type) ==
    LET first == BatchIdLoop(st, items, 1, library_items, item_type, EmptyDict, <<>>)
    IN  BatchFuzzyLoop(first.st, first.missing, 1, library_items, item_type,
                       first.matches, first.missing)

(***************************************************************************)
(* Collections on the media server.  emby_collections is the list of the   *)
(* server's BoxSets, each [Id, Name, Items]; a new one gets the next Id.   *)
(***************************************************************************)
\* None for a collection id
NoCollection == 0

\* the server adds an item to a collection
ServerAdd(st, collection_id, movie_id) ==
    [st EXCEPT !.emby_collections =
        [i \in DOMAIN @ |-> IF @[i].Id = collection_id
                            THEN [@[i] EXCEPT !.Items = @ \cup {movie_id}]
                            ELSE @[i]]]

\* the server creates a collection holding the given items
ServerCreate(st, collection_name, ids) ==
    [st EXCEPT !.emby_collections =
        Append(@, [Id |-> Len(@) + 1, Name |-> collection_name, Items |-> ids])]

\* returns [st, ret]: ret is the collection id or NoCollection
find_collection_by_name(st, collection_name) ==
    LET s1 == Request(st, "GET /Items?IncludeItemTypes=BoxSet")
        i == FirstIndex(st.emby_collections,
                        LAMBDA c : Lower(c.Name) = Lower(collection_name))
    IN  IF Outcome(st) = "ok" /\ i # 0
        THEN [st |-> s1, ret |-> st.emby_collections[i].Id]
        ELSE [st |-> s1, ret |-> NoCollection]

\* the "Failed to add" / "Exception adding movie" lines of the log
NotAdded(st, movie_id) == [st EXCEPT !.failed = @ \cup {movie_id}]

\* returns [st, ret]: ret is TRUE when the server accepted the add
add_movie_to_emby_collection(st, movie_id, collection_id) ==
    LET s1 == Request(st, "POST /Collections/Items")
        s2 == Request(s1, "GET /Items/Id")
        s3 == Request(s2, "POST /Collections/Items")
    IN  IF Outcome(st) = "ok"
        THEN [st |-> ServerAdd(s1, collection_id, movie_id), ret |-> TRUE]
        ELSE IF Outcome(st) = "error" THEN [st |-> NotAdded(s1, movie_id), ret |-> FALSE]
        ELSE IF Outcome(s1) # "ok" THEN [st |-> NotAdded(s2, movie_id), ret |-> FALSE]
        ELSE IF Outcome(s2) = "ok"
        THEN [st |-> ServerAdd(s3, collection_id, movie_id), ret |-> TRUE]
        ELSE [st |-> NotAdded(s3, movie_id), ret |-> FALSE]

\* set(movie_ids)
SetOf(l) == {l[i] : i \in 1..Len(l)}

\* returns [st, ret]: ret is the new collection's id or NoCollection
create_collection_legacy_format(st, collection_name, movie_ids) ==
    LET s1 == Request(st, "POST /Collections")
        created == ServerCreate(s1, collection_name, SetOf(movie_ids))
    IN  IF movie_ids = <<>> THEN [st |-> st, ret |-> NoCollection]
        ELSE IF Outcome(st) = "ok"
        THEN [st |-> created, ret |-> Len(created.emby_collections)]
        ELSE [st |-> s1, ret |-> NoCollection]

\* the loop over movie_ids[1:] of the alternative method, from position i on
RECURSIVE AddRest(_, _, _, _)
AddRest(st, movie_ids, i, collection_id) ==
    IF i > Len(movie_ids) THEN st
    ELSE AddRest(add_movie_to_emby_collection(st, movie_ids[i], collection_id).st,
                 movie_ids, i + 1, collection_id)

\* returns [st, ret]: ret is the collection id or NoCollection
create_emby_collection_with_movies(st, collection_name, movie_ids) ==
    LET existing == find_collection_by_name(st, collection_name)
        legacy == create_collection_legacy_format(existing.st, collection_name, movie_ids)
        s1 == Request(legacy.st, "POST /Items/Id/Collection")
        created == ServerCreate(s1, collection_name, {movie_ids[1]})
        found == find_collection_by_name(created, collection_name)
    IN  IF movie_ids = <<>> THEN [st |-> st, ret |-> NoCollection]
        ELSE IF existing.ret # NoCollection THEN existing
        ELSE IF legacy.ret # NoCollection THEN legacy
        ELSE IF Outcome(legacy.st) # "ok" THEN [st |-> s1, ret |-> NoCollection]
        ELSE IF found.ret = NoCollection THEN found
        ELSE [st |-> AddRest(found.st, movie_ids, 2, found.ret), ret |-> found.ret]

(***************************************************************************)
(* recheck_missing_item                                                    *)
(***************************************************************************)
\* the loop over the record's collections, from position i on; count is
\* success_count
RECURSIVE RecheckLoop(_, _, _, _, _)
RecheckLoop(st, collections, i, emby_id, count) ==
    IF i > Len(collections) THEN [st |-> st, count |-> count]
    ELSE LET found == find_collection_by_name(st, Get(collections[i], "name", <<>>))
             added == add_movie_to_emby_collection(found.st, emby_id, found.ret)
         IN  IF found.ret = NoCollection
             THEN RecheckLoop(found.st, collections, i + 1, emby_id, count)
             ELSE RecheckLoop(added.st, collections, i + 1, emby_id,
                              IF added.ret THEN count + 1 ELSE count)

\* the record's collections, the legacy collection_name converted
RecheckCollections(item) ==
    IF Get(item, "collections", <<>>) = <<>> /\ Get(item, "collection_name", <<>>) # <<>>
    THEN <<[name |-> item.collection_name, library_id |-> Get(item, "library_id", "")]>>
    ELSE Get(item, "collections", <<>>)

\* after the loop over the collections: the record is deleted when an add succeeded;
\* otherwise the automatic recheck notes the reason and the manual one changes nothing
RecheckAdded(item_index, loop, manual) ==
    IF loop.count > 0
    THEN [st |-> save_missing_items(
                    [loop.st EXCEPT !.missing_items = DelAt(@, item_index)]),
          ret |-> TRUE]
    ELSE IF manual THEN [st |-> loop.st, ret |-> FALSE]
    ELSE [st |-> save_missing_items(
                    [loop.st EXCEPT !.missing_items[item_index + 1] =
                        Put(@, "reason", "Found in Emby but collection doesn't exist")]),
          ret |-> FALSE]

\* a verification that accepts every id
VerifiedAlways(st, manual_emby_id) == TRUE

\* GET /Items/{manual_emby_id} answers 200: the request succeeds and the server
\* holds the item
Verified(st, manual_emby_id) ==
    /\ Outcome(st) = "ok"
    /\ \E i \in 1..Len(st.emby_library) : st.emby_library[i].Id = manual_emby_id

\* the branch with a manual id: s1 is the state after GET /Items/{manual_emby_id}
RecheckManual(st, s1, item_index, item, manual_emby_id) ==
    LET trakt_ids == Get(item, "trakt_ids", EmptyDict)
    IN  IF ~Verified(st, manual_emby_id) THEN [st |-> s1, ret |-> FALSE]
        ELSE RecheckAdded(item_index,
                          RecheckLoop(IF Get(trakt_ids, "trakt", NoNum) # NoNum
                                      THEN add_emby_id_mapping(s1, trakt_ids.trakt,
                                                               manual_emby_id,
                                                               Get(item, "type", ""),
                                                               Get(item, "title", <<>>))
                                      ELSE s1,
                                      RecheckCollections(item), 1, manual_emby_id, 0),
                          TRUE)

\* the branch without a manual id, once the search has returned
RecheckSearched(item_index, item, searched) ==
    IF searched.ret # NoEmbyId
    THEN RecheckAdded(item_index,
                      RecheckLoop(searched.st, RecheckCollections(item), 1,
                                  searched.ret, 0),
                      FALSE)
    ELSE [st |-> Tick(save_missing_items(
                    [searched.st EXCEPT !.missing_items[item_index + 1] =
                        Put(@, "last_checked", searched.st.now)])),
          ret |-> FALSE]

\* the search of the branch without a manual id
RecheckSearch(st, item) ==
    IF Get(item, "type", "") = "movie"
    THEN search_movie_in_emby(st, Get(item, "title", <<>>), Get(item, "year", NoYear),
                              Get(item, "trakt_ids", EmptyDict),
                              Get(item, "library_id", ""))
    ELSE search_tv_show_in_emby(st, Get(item, "title", <<>>), Get(item, "year", NoYear),
                                Get(item, "trakt_ids", EmptyDict),
                                Get(item, "library_id", ""))

\* returns [st, ret]: ret is the success flag
recheck_missing_item(st, item_index, manual_emby_id) ==
    IF item_index < 0 \/ item_index >= Len(st.missing_items)
    THEN [st |-> st, ret |-> FALSE]
    ELSE IF manual_emby_id # NoEmbyId
    THEN RecheckManual(st, Request(st, "GET /Items/Id"), item_index,
                       At(st.missing_items, item_index), manual_emby_id)
    ELSE RecheckSearched(item_index, At(st.missing_items, item_index),
                         RecheckSearch(st, At(st.missing_items, item_index)))

(***************************************************************************)
(* Specification SpecNorm: normalize_title applied to a title and then to  *)
(* its own result.                                                         *)
(***************************************************************************)
MaxChunks == 3

TitleChunks ==
    { <<"T", "h", "e", " ">>, <<"a", " ">>, <<"A", "n", " ">>,
      <<"M", "a", "r", "v", "e", "l", "'", "s", " ">>,
      <<" ">>, <<"x">>, <<"(", "1", "9", "9", "9", ")">>, <<"!">> }

RECURSIVE Concat(_)
Concat(chunks) == IF chunks = <<>> THEN <<>> ELSE chunks[1] \o Concat(Tail(chunks))

TitleInputs ==
    { Concat(cs) : cs \in UNION { [1..n -> TitleChunks] : n \in 1..MaxChunks } }

NoCall == [op |-> "none"]

\* no sync is running
NoSync == [pc |-> "idle"]

InitStore ==
    /\ missing_items = <<>>
    /\ ignored_items = <<>>
    /\ emby_id_mapping = EmptyDict
    /\ library_cache = EmptyDict
    /\ missing_file = <<>>
    /\ ignored_file = <<>>
    /\ mapping_file = EmptyDict
    /\ now = 1

InitNorm ==
    /\ norm_in \in TitleInputs
    /\ norm_out = <<>>
    /\ InitStore
    /\ emby_collections = <<>>
    /\ emby_library = <<>>
    /\ last_call = NoCall
    /\ sync = NoSync

\* one more application of normalize_title: to the title, then to the result
Normalize ==
    /\ Len(norm_out) < 2
    /\ norm_out' = Append(norm_out,
                          normalize_title(IF norm_out = <<>> THEN norm_in
                                          ELSE norm_out[Len(norm_out)]))
    /\ UNCHANGED <<norm_in, storeVars, serverVars, last_call, sync>>

NextNorm == Normalize

SpecNorm == InitNorm /\ [][NextNorm]_vars

\* C5: normalize_title(normalize_title(x)) = normalize_title(x) for every title x.
C5_Idempotent == Len(norm_out) = 2 => norm_out[2] = norm_out[1]

(***************************************************************************)
(* Specification SpecMatch: the resolvers called on entries of a Trakt     *)
(* list against a library of the media server that may change between      *)
(* calls.                                                                  *)
(***************************************************************************)
\* resolver calls in one behaviour
MaxCalls == 1
MaxLibrary == 2

Dune == <<"D", "u", "n", "e">>
DunePartTwo == <<"D", "u", "n", "e", " ", "P", "a", "r", "t", " ", "T", "w", "o">>
Arrival == <<"A", "r", "r", "i", "v", "a", "l">>
TT1 == <<"t", "t", "1">>

\* library items the media server may hold
ItemPool ==
    { [Id |-> "m1", Type |-> "Movie", ParentId |-> "L1", Name |-> Dune,
       ProductionYear |-> 2021, ProviderIds |-> [Imdb |-> TT1], Path |-> <<"/", "a">>],
      [Id |-> "m2", Type |-> "Movie", ParentId |-> "L1", Name |-> Dune,
       ProductionYear |-> 1984, ProviderIds |-> [Tmdb |-> <<"7">>], Path |-> <<"/", "b">>],
      [Id |-> "m3", Type |-> "Movie", ParentId |-> "L1", Name |-> Arrival,
       ProductionYear |-> NoYear, ProviderIds |-> EmptyDict,
       Path |-> <<"/">> \o ImdbTag \o TT1 \o <<"]">>],
      [Id |-> "m4", Type |-> "Movie", ParentId |-> "L1", Name |-> DunePartTwo,
       ProductionYear |-> 2022, ProviderIds |-> [Imdb |-> <<"1">>, Tvdb |-> <<"9">>],
       Path |-> <<"/", "d">>],
      [Id |-> "s1", Type |-> "Series", ParentId |-> "L1", Name |-> Dune,
       ProductionYear |-> 2021, ProviderIds |-> [Tvdb |-> <<"9">>], Path |-> <<"/", "e">>],
      [Id |-> "s2", Type |-> "Series", ParentId |-> "L1", Name |-> Arrival,
       ProductionYear |-> 2000, ProviderIds |-> [Tmdb |-> <<"7">>, Imdb |-> TT1],
       Path |-> <<"/", "f">>] }

\* the libraries: up to MaxLibrary different items, in any order
Libraries ==
    { l \in UNION { [1..n -> ItemPool] : n \in 0..MaxLibrary } :
        \A i, j \in 1..Len(l) : i # j => l[i] # l[j] }

\* the ids Trakt gives an entry
IdSets ==
    { [trakt |-> t, imdb |-> i, tmdb |-> m, tvdb |-> v] :
        t \in {NoNum, 1}, i \in {<<>>, TT1}, m \in {NoNum, 7}, v \in {NoNum, 9} }

\* the items of a Trakt list
TraktItems ==
    { [type |-> k, media |-> [title |-> Dune, year |-> 2021, ids |-> ids]] :
        k \in {"movie", "show"}, ids \in IdSets }
    \cup { [type |-> "movie", media |-> [title |-> Dune, year |-> NoYear, ids |-> ids]] :
             ids \in {[trakt |-> 1, imdb |-> <<>>, tmdb |-> NoNum, tvdb |-> NoNum], EmptyDict} }

\* Mapping Stores that earlier runs may have left in emby_id_mappings.json
StoredMappings ==
    { EmptyDict }
    \cup { (MappingKey(k, 1) :> [emby_id |-> e, type |-> k, title |-> Dune, last_updated |-> 0]) :
             k \in {"movie", "show"}, e \in {"m2", "s1"} }

\* the configured lists
TraktLists ==
    { [list_id |-> "t1", collection_name |-> <<"A">>, library_id |-> "L1", type |-> "movies"],
      [list_id |-> "t2", collection_name |-> <<"b">>, library_id |-> "L1", type |-> "shows"] }

\* the lists an entry of the given kind is synced from
ListsOf(item) == { list \in TraktLists : list.type = item.type \o "s" }

\* outcomes of the first request of a call
OneRequest == {<<o>> : o \in Outcomes}

\* a call takes time: the clock has moved on when it returns
Elapse(st) == IF st.now = now THEN Tick(st) ELSE st

InitMatch ==
    /\ missing_items = <<>>
    /\ ignored_items = <<>>
    /\ emby_id_mapping \in StoredMappings
    /\ mapping_file = emby_id_mapping
    /\ library_cache = EmptyDict
    /\ missing_file = <<>>
    /\ ignored_file = <<>>
    /\ now = 1
    /\ emby_collections = <<>>
    /\ emby_library \in Libraries
    /\ last_call = NoCall
    /\ norm_in = <<>>
    /\ norm_out = <<>>
    /\ sync = NoSync

ProcessItem ==
    \E item \in TraktItems, net \in OneRequest : \E list \in ListsOf(item) :
        LET r == process_item(St(net), item, list.library_id, list.collection_name)
        IN  /\ now <= MaxCalls
            /\ Commit(Elapse(r.st))
            /\ last_call' = [op |-> "process_item", item |-> item,
                             library_id |-> list.library_id, ret |-> r.ret,
                             trace |-> r.st.trace]
            /\ UNCHANGED idleVars

SearchMovie ==
    \E item \in TraktItems, net \in OneRequest : \E list \in ListsOf(item) :
        LET r == search_movie_in_emby(St(net), item.media.title, item.media.year,
                                      item.media.ids, list.library_id)
        IN  /\ now <= MaxCalls
            /\ Commit(Elapse(r.st))
            /\ last_call' = [op |-> "search_movie_in_emby", item |-> item,
                             library_id |-> list.library_id, ret |-> r.ret,
                             trace |-> r.st.trace]
            /\ UNCHANGED idleVars

SearchTvShow ==
    \E item \in TraktItems, net \in OneRequest : \E list \in ListsOf(item) :
        LET r == search_tv_show_in_emby(St(net), item.media.title, item.media.year,
                                        item.media.ids, list.library_id)
        IN  /\ now <= MaxCalls
            /\ Commit(Elapse(r.st))
            /\ last_call' = [op |-> "search_tv_show_in_emby", item |-> item,
                             library_id |-> list.library_id, ret |-> r.ret,
                             trace |-> r.st.trace]
            /\ UNCHANGED idleVars

BatchMatch ==
    \E item \in TraktItems : \E list \in ListsOf(item) :
        LET library_items == ServerItems(St(<<>>), IF item.type = "movie" THEN "Movie"
                                                   ELSE "Series", list.library_id)
            r == batch_match_by_provider_ids(St(<<>>), <<item.media>>, library_items,
                                             item.type)
        IN  /\ now <= MaxCalls
            /\ Commit(Elapse(r.st))
            /\ last_call' = [op |-> "batch_match_by_provider_ids", item |-> item,
                             library_id |-> list.library_id,
                             ret |-> Get(r.matches, item.media.title, NoEmbyId),
                             trace |-> r.st.trace]
            /\ UNCHANGED idleVars

NextMatch ==
    \/ ProcessItem
    \/ SearchMovie
    \/ SearchTvShow
    \/ BatchMatch

SpecMatch == InitMatch /\ [][NextMatch]_vars

(***************************************************************************)
(* Properties of the resolvers                                             *)
(***************************************************************************)
\* "Movie" / "Series": the library kind the resolvers fetch for an entry
KindOf(item) == IF item.type = "movie" THEN "Movie" ELSE "Series"

\* the library item with the given Id
ItemById(library_items, id) ==
    library_items[FirstIndex(library_items, LAMBDA it : it.Id = id)]

\* both years are known and lie more than one year apart
YearOutside(lib_item, year) ==
    /\ year # NoYear
    /\ Get(lib_item, "ProductionYear", NoYear) # NoYear
    /\ Abs(year - Get(lib_item, "ProductionYear", NoYear)) > 1

\* C2: for every entry whose Trakt id has a Mapping Store record under the entry's
\* kind, process_item and the search function of that kind return the stored Emby
\* id, make no get_emby_library_items call and no request, and leave the Library
\* Index cache as it was, whatever the library holds and whatever the server answers.
C2_FastPath ==
    \A item \in TraktItems : \A list \in ListsOf(item) : \A net \in OneRequest :
        LET media == item.media
            trakt_id == Get(media.ids, "trakt", NoNum)
            key == MappingKey(item.type, trakt_id)
            p == process_item(St(net), item, list.library_id, list.collection_name)
            s == IF item.type = "movie"
                 THEN search_movie_in_emby(St(net), media.title, media.year, media.ids,
                                           list.library_id)
                 ELSE search_tv_show_in_emby(St(net), media.title, media.year, media.ids,
                                             list.library_id)
        IN  (trakt_id # NoNum /\ key \in DOMAIN emby_id_mapping) =>
                /\ p.ret = <<[id |-> emby_id_mapping[key].emby_id, type |-> item.type]>>
                /\ p.st.trace = <<>>
                /\ p.st.library_cache = library_cache
                /\ s.ret = emby_id_mapping[key].emby_id
                /\ s.st.trace = <<>>
                /\ s.st.library_cache = library_cache

\* a process_item call took the fast path: it returned the stored m2 without any
\* lookup while the library holds m1, which carries the entry's IMDB id, and not m2
C2_Witness ==
    /\ last_call.op = "process_item"
    /\ Get(last_call.item.media.ids, "trakt", NoNum) = 1
    /\ Get(last_call.item.media.ids, "imdb", <<>>) = TT1
    /\ last_call.ret = <<[id |-> "m2", type |-> "movie"]>>
    /\ last_call.trace = <<>>
    /\ \E i \in 1..Len(emby_library) : emby_library[i].Id = "m1"
    /\ \A i \in 1..Len(emby_library) : emby_library[i].Id # "m2"

\* C3: for every entry on which process_item runs its strategies (usable ids, no
\* stored mapping), the result is what the first matching strategy finds, in the
\* order IMDB in metadata, IMDB in path, TMDB, TVDB (shows), title; it is None
\* exactly when no strategy matches.
C3_StrategyOrder ==
    \A item \in TraktItems : \A list \in ListsOf(item) : \A net \in OneRequest :
        LET media == item.media
            ids == media.ids
            trakt_id == Get(ids, "trakt", NoNum)
            p == process_item(St(net), item, list.library_id, list.collection_name)
            library_items == get_emby_library_items(St(net), KindOf(item),
                                                    list.library_id, FALSE).ret
            found == << MatchImdbMetadata(library_items, ids),
                        MatchImdbPath(library_items, ids),
                        MatchTmdb(library_items, ids),
                        MatchTvdb(library_items, ids, item.type),
                        MatchNameYear(library_items, media.title, media.year) >>
            hits == {k \in 1..5 : found[k] # NoEmbyId}
            first == CHOOSE k \in hits : \A j \in hits : k <= j
        IN  (/\ HasUsableIds(ids)
             /\ (trakt_id = NoNum
                 \/ MappingKey(item.type, trakt_id) \notin DOMAIN emby_id_mapping)) =>
                IF hits = {} THEN p.ret = <<>>
                ELSE p.ret = <<[id |-> found[first], type |-> item.type]>>

\* a process_item call returned m2, which carries the entry's TMDB id, while m1 of
\* the same library has the entry's title and year
C3_Witness ==
    /\ last_call.op = "process_item"
    /\ last_call.item.type = "movie"
    /\ Get(last_call.item.media.ids, "tmdb", NoNum) = 7
    /\ Get(last_call.item.media.ids, "imdb", <<>>) = <<>>
    /\ last_call.item.media.year = 2021
    /\ last_call.trace # <<>>
    /\ last_call.ret = <<[id |-> "m2", type |-> "movie"]>>
    /\ MatchNameYear(emby_library, last_call.item.media.title, 2021) = "m1"

\* C4: a resolver that returns a library item for an entry which has no stored
\* mapping and which no id strategy of that resolver matches (a match by title
\* alone) never returns an item whose production year is known and more than one
\* year away from the entry's year; for process_item, search_movie_in_emby,
\* search_tv_show_in_emby and batch_match_by_provider_ids.
C4_YearWindow ==
    \A item \in TraktItems : \A list \in ListsOf(item) : \A net \in OneRequest :
        LET media == item.media
            ids == media.ids
            trakt_id == Get(ids, "trakt", NoNum)
            unmapped == \/ trakt_id = NoNum
                        \/ MappingKey(item.type, trakt_id) \notin DOMAIN emby_id_mapping
            library_items == get_emby_library_items(St(net), KindOf(item),
                                                    list.library_id, FALSE).ret
            p == process_item(St(net), item, list.library_id, list.collection_name)
            s == IF item.type = "movie"
                 THEN search_movie_in_emby(St(net), media.title, media.year, ids,
                                           list.library_id)
                 ELSE search_tv_show_in_emby(St(net), media.title, media.year, ids,
                                             list.library_id)
            b == batch_match_by_provider_ids(St(net), <<media>>, library_items, item.type)
        IN  unmapped =>
                /\ (/\ p.ret # <<>>
                    /\ MatchImdbMetadata(library_items, ids) = NoEmbyId
                    /\ MatchImdbPath(library_items, ids) = NoEmbyId
                    /\ MatchTmdb(library_items, ids) = NoEmbyId
                    /\ MatchTvdb(library_items, ids, item.type) = NoEmbyId) =>
                       ~YearOutside(ItemById(library_items, p.ret[1].id), media.year)
                /\ (/\ s.ret # NoEmbyId
                    /\ SearchImdb(library_items, Get(ids, "imdb", <<>>)) = NoEmbyId
                    /\ SearchTmdb(library_items, Get(ids, "tmdb", NoNum)) = NoEmbyId
                    /\ (item.type = "show" =>
                           SearchTvdb(library_items, Get(ids, "tvdb", NoNum)) = NoEmbyId)) =>
                       ~YearOutside(ItemById(library_items, s.ret), media.year)
                /\ (/\ media.title \in DOMAIN b.matches
                    /\ BatchIdMatch(library_items, ids, item.type) = NoEmbyId) =>
                       ~YearOutside(ItemById(library_items, b.matches[media.title]),
                                    media.year)

\* C17: when process_item has returned an Emby id for an entry with a Trakt id,
\* by the stored mapping or by a match, the Mapping Store and its file hold the
\* record of (kind, Trakt id) with that Emby id and last_updated at the time of
\* the call; when the entry has no Trakt id, the call wrote no record.
C17_MappingWritten ==
    last_call.op = "process_item" =>
        LET trakt_id == Get(last_call.item.media.ids, "trakt", NoNum)
            key == MappingKey(IF last_call.item.type = "movie" THEN "movie" ELSE "show",
                              trakt_id)
        IN  IF trakt_id # NoNum
            THEN last_call.ret # <<>> =>
                    /\ key \in DOMAIN emby_id_mapping
                    /\ emby_id_mapping[key].emby_id = last_call.ret[1].id
                    /\ emby_id_mapping[key].last_updated = now - 1
                    /\ mapping_file = emby_id_mapping
            ELSE \A k \in DOMAIN emby_id_mapping :
                    emby_id_mapping[k].last_updated < now - 1

(***************************************************************************)
(* Specification SpecCache: get_emby_library_items and clear_library_cache  *)
(* called in any order while the media server's library changes.  The      *)
(* other specifications run with EMBY_SERVER set; here it may be absent.   *)
(***************************************************************************)
\* the libraries the media server goes through
CacheLibraries ==
    { <<>>,
      <<CHOOSE it \in ItemPool : it.Id = "m1">>,
      <<CHOOSE it \in ItemPool : it.Id = "m1", CHOOSE it \in ItemPool : it.Id = "s1">> }

\* the kinds and library ids get_emby_library_items is called with; "" is the
\* None of a call without library id
CacheKinds == {"Movie", "Series"}
CacheLibraryIds == {"L1", ""}

InitCache ==
    /\ InitStore
    /\ emby_collections = <<>>
    /\ emby_library \in CacheLibraries
    /\ last_call = NoCall
    /\ norm_in = <<>>
    /\ norm_out = <<>>
    /\ sync = NoSync

\* what a get_emby_library_items call leaves behind
LibraryItemsDone(r, item_type, library_id, force_refresh) ==
    /\ Commit(r.st)
    /\ last_call' = [op |-> "get_emby_library_items", item_type |-> item_type,
                     library_id |-> library_id, force_refresh |-> force_refresh,
                     cached |-> <<item_type, library_id>> \in DOMAIN library_cache,
                     ret |-> r.ret, raised |-> r.raised, trace |-> r.st.trace]

GetEmbyLibraryItems ==
    /\ \E item_type \in CacheKinds, library_id \in CacheLibraryIds,
          force_refresh \in BOOLEAN, net \in OneRequest,
          server \in {EMBY_SERVER, NoServer} :
          LibraryItemsDone(
              get_emby_library_items([St(net) EXCEPT !.emby_server = server],
                                     item_type, library_id, force_refresh),
              item_type, library_id, force_refresh)
    /\ UNCHANGED idleVars

ClearLibraryCache ==
    /\ Commit(clear_library_cache(St(<<>>)))
    /\ last_call' = [op |-> "clear_library_cache"]
    /\ UNCHANGED idleVars

\* items are added to or removed from the media server
EmbyLibraryChanges ==
    /\ emby_library' \in CacheLibraries \ {emby_library}
    /\ last_call' = NoCall
    /\ UNCHANGED <<storeVars, emby_collections, idleVars>>

NextCache ==
    \/ GetEmbyLibraryItems
    \/ ClearLibraryCache
    \/ EmbyLibraryChanges

SpecCache == InitCache /\ [][NextCache]_vars

\* C18: while (kind, libraryId) is in the cache, a call without force_refresh
\* returns the cached sequence, makes no request and leaves the cache as it is,
\* whatever the server holds by then; a successful fetch puts its result in the
\* cache under that key and keeps every other entry, so that the next call is such
\* a hit; a call with force_refresh requests the library again and, when the
\* request succeeds, replaces the entry by what the server holds.
C18_CachedUntilCleared ==
    \A item_type \in CacheKinds, library_id \in CacheLibraryIds, net \in OneRequest :
        LET key == <<item_type, library_id>>
            plain == get_emby_library_items(St(net), item_type, library_id, FALSE)
            again == get_emby_library_items([plain.st EXCEPT !.trace = <<>>],
                                            item_type, library_id, FALSE)
            forced == get_emby_library_items(St(net), item_type, library_id, TRUE)
        IN  /\ key \in DOMAIN library_cache =>
                  /\ plain.ret = library_cache[key]
                  /\ plain.st.trace = <<"get_emby_library_items">>
                  /\ plain.st.library_cache = library_cache
            /\ "GET /Items" \in SetOf(plain.st.trace) /\ Outcome(St(net)) = "ok" =>
                  /\ key \in DOMAIN plain.st.library_cache
                  /\ plain.st.library_cache[key] = plain.ret
                  /\ \A k \in DOMAIN library_cache \ {key} :
                        /\ k \in DOMAIN plain.st.library_cache
                        /\ plain.st.library_cache[k] = library_cache[k]
                  /\ again.ret = plain.ret
                  /\ again.st.trace = <<"get_emby_library_items">>
            /\ \A k \in DOMAIN library_cache : k \in DOMAIN forced.st.library_cache
            /\ "GET /Items" \in SetOf(forced.st.trace)
            /\ Outcome(St(net)) = "ok" =>
                  /\ forced.ret
                       = ServerItems(St(net), item_type,
                                     IF library_id # "" THEN library_id
                                     ELSE IF item_type = "Movie"
                                     THEN EMBY_MOVIES_LIBRARY_ID
                                     ELSE EMBY_TV_LIBRARY_ID)
                  /\ forced.st.library_cache[key] = forced.ret

\* a library was fetched, the server's library changed, and a later call without
\* force_refresh returned the cached items without any request
C18_Witness ==
    /\ last_call.op = "get_emby_library_items"
    /\ last_call.cached
    /\ ~last_call.force_refresh
    /\ last_call.ret # <<>>
    /\ last_call.trace = <<"get_emby_library_items">>
    /\ last_call.ret # ServerItems(St(<<>>), last_call.item_type, "L1")
    /\ last_call.ret = library_cache[<<last_call.item_type, last_call.library_id>>]

\* C19: get_emby_library_items ends by returning, never by an exception, and
\* returns an empty sequence when the request raises, answers with another status,
\* or the server setting is absent.
C19_NeverRaises ==
    \A item_type \in CacheKinds, library_id \in CacheLibraryIds, net \in OneRequest,
       server \in {EMBY_SERVER, NoServer} :
        LET r == get_emby_library_items([St(net) EXCEPT !.emby_server = server],
                                        item_type, library_id, TRUE)
        IN  /\ ~r.raised
            /\ (Outcome(St(net)) # "ok" \/ server = NoServer) => r.ret = <<>>

(***************************************************************************)
(* Specification SpecReg: the operations on the Unresolved and Ignored     *)
(* registries, called in any order on registries loaded from the files of  *)
(* earlier runs.                                                           *)
(***************************************************************************)
\* registry calls in one behaviour
MaxClock == 2
\* records in missing_items.json at start
MaxRecords == 3

\* entries reported as unresolved: two with a Trakt id, one without
RegItems ==
    { [type |-> "movie", media |-> [title |-> Dune, year |-> 2021, ids |-> ids]] :
        ids \in { [trakt |-> 1], [trakt |-> 2], [imdb |-> TT1] } }

NoMatchReason == "No matching IDs found in Emby library"

\* the state of a run that starts with the given Unresolved registry and nothing else
EarlierRun(missing) ==
    [missing_items |-> missing, ignored_items |-> <<>>, emby_id_mapping |-> EmptyDict,
     library_cache |-> EmptyDict, missing_file |-> missing, ignored_file |-> <<>>,
     mapping_file |-> EmptyDict, now |-> 0, emby_collections |-> <<>>,
     emby_library |-> <<>>, net |-> <<>>, trace |-> <<>>, failed |-> {},
     emby_server |-> EMBY_SERVER]

\* the Unresolved registries that earlier runs can have written with up to n
\* add_to_missing_items calls
RECURSIVE WrittenRegistries(_)
WrittenRegistries(n) ==
    IF n = 0 THEN {<<>>}
    ELSE WrittenRegistries(n - 1) \cup
         { add_to_missing_items(EarlierRun(missing), item.media, item.type, <<"A">>, "L1",
                                NoMatchReason).st.missing_items :
             missing \in WrittenRegistries(n - 1), item \in RegItems }

\* the index lists of the bulk operation: distinct positions of a list of length n,
\* in any order
IndexLists(n) ==
    { l \in UNION { [1..k -> 0..(n - 1)] : k \in 0..n } :
        \A i, j \in 1..Len(l) : i # j => l[i] # l[j] }

\* a record in the old format recheck_missing_item and add_to_missing_items still
\* read: one collection_name and library_id, the ids under trakt_ids
LegacyRecord ==
    [title |-> Arrival, year |-> 2016, type |-> "movie", reason |-> NoMatchReason,
     last_checked |-> 0, collection_name |-> <<"A">>, library_id |-> "L1",
     trakt_ids |-> [trakt |-> 3]]

\* missing_items.json at start: written by this version, or begun by an older one
LoadedRegistries ==
    WrittenRegistries(MaxRecords)
    \cup { <<LegacyRecord>> \o w : w \in WrittenRegistries(MaxRecords - 1) }

InitReg ==
    /\ missing_items \in LoadedRegistries
    /\ missing_file = missing_items
    /\ ignored_items = <<>>
    /\ ignored_file = <<>>
    /\ emby_id_mapping = EmptyDict
    /\ mapping_file = EmptyDict
    /\ library_cache = EmptyDict
    /\ now = 1
    /\ emby_collections = <<[Id |-> 1, Name |-> <<"A">>, Items |-> {}]>>
    /\ emby_library = <<CHOOSE it \in ItemPool : it.Id = "m1">>
    /\ last_call = NoCall
    /\ norm_in = <<>>
    /\ norm_out = <<>>
    /\ sync = NoSync

AddToMissingItems ==
    \E item \in RegItems, list \in TraktLists :
        LET r == add_to_missing_items(St(<<>>), item.media, item.type,
                                      list.collection_name, list.library_id, NoMatchReason)
        IN  /\ now <= MaxClock
            /\ Commit(r.st)
            /\ last_call' = [op |-> "add_to_missing_items", item |-> item, ret |-> r.ret]
            /\ UNCHANGED idleVars

IgnoreMissingItem ==
    \E item_index \in 0..Len(missing_items) :
        LET r == ignore_missing_item(St(<<>>), item_index)
        IN  /\ now <= MaxClock
            /\ Commit(r.st)
            /\ last_call' = [op |-> "ignore_missing_item", index |-> item_index,
                             ret |-> r.ret]
            /\ UNCHANGED idleVars

IgnoreMissingItems ==
    \E item_indices \in IndexLists(Len(missing_items)) :
        LET r == ignore_missing_items(St(<<>>), item_indices)
        IN  /\ now <= MaxClock
            /\ Commit(r.st)
            /\ last_call' = [op |-> "ignore_missing_items", indices |-> item_indices,
                             ret |-> r.ret]
            /\ UNCHANGED idleVars

UnignoreItem ==
    \E item_index \in 0..Len(ignored_items) :
        LET r == unignore_item(St(<<>>), item_index)
        IN  /\ now <= MaxClock
            /\ Commit(r.st)
            /\ last_call' = [op |-> "unignore_item", index |-> item_index, ret |-> r.ret]
            /\ UNCHANGED idleVars

RecheckMissingItem ==
    \E item_index \in 0..Len(missing_items), manual_emby_id \in {NoEmbyId, "m1"},
       net \in OneRequest :
        LET r == recheck_missing_item(St(net), item_index, manual_emby_id)
        IN  /\ now <= MaxClock
            /\ Commit(r.st)
            /\ last_call' = [op |-> "recheck_missing_item", index |-> item_index,
                             manual |-> manual_emby_id, net |-> net, ret |-> r.ret]
            /\ UNCHANGED idleVars

ClearMissingItemsForCollection ==
    \E list \in TraktLists :
        LET r == clear_missing_items_for_collection(St(<<>>), list.collection_name)
        IN  /\ now <= MaxClock
            /\ Commit(Elapse(r.st))
            /\ last_call' = [op |-> "clear_missing_items_for_collection",
                             name |-> list.collection_name, ret |-> r.ret]
            /\ UNCHANGED idleVars

NextReg ==
    \/ ClearMissingItemsForCollection
    \/ AddToMissingItems
    \/ IgnoreMissingItem
    \/ IgnoreMissingItems
    \/ UnignoreItem
    \/ RecheckMissingItem

SpecReg == InitReg /\ [][NextReg]_vars

(***************************************************************************)
(* Properties of the registries                                            *)
(***************************************************************************)
\* two records stand for the same entry: the same Trakt id, or, when neither
\* has one, the same title and year
SameIdentity(a, b) ==
    IF TraktIdOf(a) # NoNum /\ TraktIdOf(b) # NoNum THEN TraktIdOf(a) = TraktIdOf(b)
    ELSE IF TraktIdOf(a) = NoNum /\ TraktIdOf(b) = NoNum
    THEN Get(a, "title", <<>>) = Get(b, "title", <<>>)
         /\ Get(a, "year", NoYear) = Get(b, "year", NoYear)
    ELSE FALSE

\* the records of l at the positions (from 0) outside chosen, in their order
Without(l, chosen) ==
    LET kept == SelectSeq([i \in 1..Len(l) |-> i - 1], LAMBDA q : q \notin chosen)
    IN  [k \in 1..Len(kept) |-> At(l, kept[k])]

\* C6 (as the code has it): no Trakt id has a record in both the Unresolved and
\* the Ignored registry, after any sequence of add_to_missing_items,
\* ignore_missing_item, ignore_missing_items, unignore_item and
\* recheck_missing_item.
C6_NoSharedTraktId ==
    \A i \in 1..Len(missing_items), j \in 1..Len(ignored_items) :
        TraktIdOf(missing_items[i]) # NoNum =>
            TraktIdOf(missing_items[i]) # TraktIdOf(ignored_items[j])

\* C6 (as stated): no identity, the Trakt id or title and year for an entry
\* without one, has a record in both registries.
C6_NoSharedIdentity ==
    \A i \in 1..Len(missing_items), j \in 1..Len(ignored_items) :
        ~SameIdentity(missing_items[i], ignored_items[j])

\* an entry whose Trakt id has an Ignored record was reported again: the call
\* returned False and the Unresolved registry has no record of that id
C6_Witness ==
    /\ last_call.op = "add_to_missing_items"
    /\ last_call.ret = FALSE
    /\ TraktIdOf(last_call.item.media) # NoNum
    /\ \E j \in 1..Len(ignored_items) :
          TraktIdOf(ignored_items[j]) = TraktIdOf(last_call.item.media)
    /\ \A i \in 1..Len(missing_items) :
          TraktIdOf(missing_items[i]) # TraktIdOf(last_call.item.media)

\* C7: ignore_missing_item at a valid index followed by unignore_item of the record
\* it moved (the last Ignored record) leaves the Ignored registry as it was and the
\* record back in the Unresolved registry, at its end, without ignored_on, with
\* last_checked set to the time of the unignore and every other field as before;
\* the other Unresolved records are untouched.
C7_RoundTrip ==
    \A item_index \in 0..(Len(missing_items) - 1) :
        LET ignored == ignore_missing_item(St(<<>>), item_index)
            back == unignore_item(ignored.st, Len(ignored.st.ignored_items) - 1)
            record == At(missing_items, item_index)
            restored == back.st.missing_items[Len(back.st.missing_items)]
        IN  /\ ignored.ret /\ back.ret
            /\ back.st.ignored_items = ignored_items
            /\ Len(back.st.missing_items) = Len(missing_items)
            /\ SubSeq(back.st.missing_items, 1, Len(missing_items) - 1)
                 = DelAt(missing_items, item_index)
            /\ "ignored_on" \notin DOMAIN restored
            /\ restored.last_checked = ignored.st.now
            /\ restored.last_checked > record.last_checked
            /\ \A f \in DOMAIN record \cup DOMAIN restored :
                  f # "last_checked" =>
                      f \in DOMAIN record /\ f \in DOMAIN restored
                      /\ restored[f] = record[f]

\* a record was ignored and then unignored: the Ignored registry is empty again and
\* the record is the last Unresolved one, stamped by the unignore
C7_Witness ==
    /\ last_call.op = "unignore_item"
    /\ last_call.ret = TRUE
    /\ ignored_items = <<>>
    /\ Len(missing_items) >= 2
    /\ "ignored_on" \notin DOMAIN missing_items[Len(missing_items)]
    /\ missing_items[Len(missing_items)].last_checked = now - 1
    /\ now = 3

\* C8: for every list of distinct in-range indices, in any order,
\* ignore_missing_items appends to the Ignored registry exactly the records that
\* were at those positions, each with ignored_on added, and leaves the other
\* Unresolved records unmodified and in their order.
C8_BulkIgnore ==
    \A item_indices \in IndexLists(Len(missing_items)) :
        item_indices # <<>> =>
            LET r == ignore_missing_items(St(<<>>), item_indices)
                n == Len(item_indices)
                moved == SubSeq(r.st.ignored_items, Len(ignored_items) + 1,
                                Len(r.st.ignored_items))
            IN  /\ r.ret
                /\ r.st.missing_items = Without(missing_items, SetOf(item_indices))
                /\ SubSeq(r.st.ignored_items, 1, Len(ignored_items)) = ignored_items
                /\ Len(moved) = n
                /\ \E f \in [1..n -> 1..n] :
                      /\ \A a, b \in 1..n : a # b => f[a] # f[b]
                      /\ \A k \in 1..n :
                            /\ "ignored_on" \in DOMAIN moved[k]
                            /\ Del(moved[k], "ignored_on")
                                 = At(missing_items, item_indices[f[k]])

\* a bulk ignore was given two positions in ascending order and moved both records,
\* leaving a third behind
C8_Witness ==
    /\ last_call.op = "ignore_missing_items"
    /\ last_call.ret = TRUE
    /\ last_call.indices = <<0, 2>>
    /\ Len(missing_items) = 1
    /\ Len(ignored_items) = 2

\* a library item of the given kind in the given library carries the IMDB or the
\* TMDB id of ids
CarriesStoredId(lib_item, kind, library_id, ids) ==
    /\ lib_item.Type = kind
    /\ lib_item.ParentId = library_id
    /\ \/ Get(ids, "imdb", <<>>) # <<>>
          /\ ProviderId(lib_item, "Imdb") = Get(ids, "imdb", <<>>)
       \/ Get(ids, "tmdb", NoNum) # NoNum
          /\ ProviderId(lib_item, "Tmdb") = Str(Get(ids, "tmdb", NoNum))

\* C11: for every Unresolved record, as add_to_missing_items wrote it, whose stored
\* IMDB or TMDB id is carried by an item of the record's library on the media
\* server, the search of recheck_missing_item without a manual id, run with an
\* empty library cache and no failing request, returns that library's item.
C11_RecheckFinds ==
    \A i \in 1..Len(missing_items) :
        LET item == missing_items[i]
            kind == IF Get(item, "type", "") = "movie" THEN "Movie" ELSE "Series"
        IN  (/\ Get(item, "collections", <<>>) # <<>>
             /\ \E k \in 1..Len(emby_library) :
                   CarriesStoredId(emby_library[k], kind,
                                   item.collections[1].library_id,
                                   Get(item, "ids", EmptyDict)))
            => RecheckSearch(clear_library_cache(St(<<>>)), item).ret # NoEmbyId

\* outcomes of the requests of a recheck with a manual id: all succeed; the
\* collection search fails; the add to the collection fails
ManualNets == { <<>>, <<"ok", "status">>, <<"ok", "ok", "error">> }

\* C12: a recheck with a manual id the server verifies that returns success has
\* removed the record from the Unresolved registry and, for a record with a Trakt
\* id, left the mapping from (kind, Trakt id) to the manual id in the Mapping
\* Store; one that returns failure has left the Mapping Store as it was.
C12_ManualResolved ==
    \A item_index \in 0..(Len(missing_items) - 1), net \in ManualNets :
        LET item == At(missing_items, item_index)
            key == MappingKey(Get(item, "type", ""), TraktIdOf(item))
            r == recheck_missing_item(St(net), item_index, "m1")
        IN  Verified(St(net), "m1") =>
              IF r.ret
              THEN /\ r.st.missing_items = DelAt(missing_items, item_index)
                   /\ r.st.missing_file = r.st.missing_items
                   /\ TraktIdOf(item) # NoNum =>
                         /\ key \in DOMAIN r.st.emby_id_mapping
                         /\ r.st.emby_id_mapping[key].emby_id = "m1"
                         /\ r.st.mapping_file = r.st.emby_id_mapping
              ELSE r.st.emby_id_mapping = emby_id_mapping

\* outcomes of GET /Items/{manual_emby_id} that fail the verification
FailedVerification == { <<"status">>, <<"error">> }

\* C13: recheck_missing_item with a manual id whose verification request answers
\* with another status or raises returns failure and leaves the Unresolved
\* registry with every record's reason, its file, the Mapping Store, its file and
\* the collections of the media server as they were.
C13_FailedVerification ==
    \A item_index \in 0..(Len(missing_items) - 1), net \in FailedVerification :
        LET r == recheck_missing_item(St(net), item_index, "m1")
        IN  /\ ~r.ret
            /\ r.st.missing_items = missing_items
            /\ r.st.missing_file = missing_file
            /\ r.st.emby_id_mapping = emby_id_mapping
            /\ r.st.mapping_file = mapping_file
            /\ r.st.emby_collections = emby_collections

\* a recheck with a manual id was made for a record of the registry, the
\* verification failed, the call reported failure and the record is still there
C13_Witness ==
    /\ last_call.op = "recheck_missing_item"
    /\ last_call.manual = "m1"
    /\ last_call.net \in FailedVerification
    /\ last_call.ret = FALSE
    /\ last_call.index < Len(missing_items)
    /\ Get(missing_items[last_call.index + 1], "reason", "") = NoMatchReason
    /\ \A k \in 1..Len(emby_collections) : emby_collections[k].Items = {}

\* the record is recorded for the collection, in either format
RecordedFor(item, collection_name) ==
    \/ "collection_name" \in DOMAIN item /\ item.collection_name = collection_name
    \/ HasCollection(Get(item, "collections", <<>>), collection_name)

\* C14: after clear_missing_items_for_collection(name) no Unresolved record is
\* recorded for name, in the collection_name field or in the collections list, the
\* registry file holds the registry, and the call returned the number of records
\* left.
C14_ClearCollection ==
    \A list \in TraktLists :
        LET r == clear_missing_items_for_collection(St(<<>>), list.collection_name)
        IN  /\ \A i \in 1..Len(r.st.missing_items) :
                  ~RecordedFor(r.st.missing_items[i], list.collection_name)
            /\ r.st.missing_file = r.st.missing_items
            /\ r.ret = Len(r.st.missing_items)

\* the collection names of a record's membership list
Names(item) ==
    LET colls == Get(item, "collections", <<>>)
    IN  [k \in 1..Len(colls) |-> colls[k].name]

\* what add_to_missing_items must do for an entry that the Ignored record at
\* position j stands for: report suppression, leave the Unresolved registry and its
\* file alone, and add the collection to that record's membership unless its name
\* is there
Suppressed(r, j, list) ==
    LET before == Get(ignored_items[j], "collections", <<>>)
        after == Get(r.st.ignored_items[j], "collections", <<>>)
    IN  /\ r.ret = FALSE
        /\ r.st.missing_items = missing_items
        /\ r.st.missing_file = missing_file
        /\ Len(r.st.ignored_items) = Len(ignored_items)
        /\ \A k \in 1..Len(ignored_items) :
              k # j => r.st.ignored_items[k] = ignored_items[k]
        /\ \A f \in DOMAIN ignored_items[j] \ {"collections"} :
              r.st.ignored_items[j][f] = ignored_items[j][f]
        /\ IF \E k \in 1..Len(before) : before[k].name = list.collection_name
           THEN after = before
           ELSE /\ after = Append(before, [name |-> list.collection_name,
                                           library_id |-> list.library_id])
                /\ r.st.ignored_file = r.st.ignored_items

\* C15 (as the code has it): add_to_missing_items for an entry whose Trakt id is
\* that of an Ignored record creates and changes no Unresolved record, adds the
\* collection to the ignored record's membership exactly when its name is not
\* there yet, and returns False.
C15_SuppressedByTraktId ==
    \A item \in RegItems, list \in TraktLists, j \in 1..Len(ignored_items) :
        (TraktIdOf(item.media) # NoNum
         /\ TraktIdOf(ignored_items[j]) = TraktIdOf(item.media))
        => Suppressed(add_to_missing_items(St(<<>>), item.media, item.type,
                                           list.collection_name, list.library_id,
                                           NoMatchReason),
                      j, list)

\* C15 (as stated): the same for every entry whose identity, the Trakt id or
\* title and year for an entry without one, is that of an Ignored record.
C15_SuppressedByIdentity ==
    \A item \in RegItems, list \in TraktLists, j \in 1..Len(ignored_items) :
        SameIdentity(item.media, ignored_items[j])
        => Suppressed(add_to_missing_items(St(<<>>), item.media, item.type,
                                           list.collection_name, list.library_id,
                                           NoMatchReason),
                      j, list)

\* an entry with the Trakt id of an Ignored record was reported for a second
\* collection: the call returned False and the ignored record now belongs to both
C15_Witness ==
    /\ last_call.op = "add_to_missing_items"
    /\ last_call.ret = FALSE
    /\ \E j \in 1..Len(ignored_items) :
          /\ TraktIdOf(ignored_items[j]) = TraktIdOf(last_call.item.media)
          /\ Names(ignored_items[j]) = << <<"A">>, <<"b">> >>
          /\ ignored_file = ignored_items

\* C16: the Unresolved registry holds at most one record per Trakt id and no
\* record's membership names a collection twice; and every add_to_missing_items
\* call that reports an entry with a Trakt id as unresolved leaves exactly one
\* record of that id, whose membership names the reported collection and every
\* collection the id's record named before the call.
C16_OneRecordPerId ==
    /\ \A i, j \in 1..Len(missing_items) :
          (i # j /\ TraktIdOf(missing_items[i]) # NoNum)
          => TraktIdOf(missing_items[i]) # TraktIdOf(missing_items[j])
    /\ \A i \in 1..Len(missing_items) :
          \A a, b \in 1..Len(Names(missing_items[i])) :
              a # b => Names(missing_items[i])[a] # Names(missing_items[i])[b]
    /\ \A item \in RegItems, list \in TraktLists :
          LET r == add_to_missing_items(St(<<>>), item.media, item.type,
                                        list.collection_name, list.library_id,
                                        NoMatchReason)
              id == TraktIdOf(item.media)
              Of(l) == {i \in 1..Len(l) : TraktIdOf(l[i]) = id}
          IN  (id # NoNum /\ r.ret) =>
                /\ Cardinality(Of(r.st.missing_items)) = 1
                /\ r.st.missing_file = r.st.missing_items
                /\ \A n \in Of(r.st.missing_items) :
                      /\ list.collection_name \in SetOf(Names(r.st.missing_items[n]))
                      /\ \A i \in Of(missing_items) :
                            SetOf(Names(missing_items[i]))
                              \subseteq SetOf(Names(r.st.missing_items[n]))

\* an entry already in the Unresolved registry for collection A was reported for
\* collection b: its one record now names both
C16_Witness ==
    /\ last_call.op = "add_to_missing_items"
    /\ last_call.ret = TRUE
    /\ TraktIdOf(last_call.item.media) # NoNum
    /\ \E i \in 1..Len(missing_items) :
          /\ TraktIdOf(missing_items[i]) = TraktIdOf(last_call.item.media)
          /\ Names(missing_items[i]) = << <<"A">>, <<"b">> >>
          /\ missing_items[i].last_checked = now - 1

(***************************************************************************)
(* Specification SpecSync: one run of sync_all_trakt_lists with a progress *)
(* callback.  sync.progress lists the fractions the callback was given for *)
(* the list being synced; sync.runs holds one record for every             *)
(* sync_trakt_list_to_emby call that has ended, by return or by exception. *)
(***************************************************************************)
\* progress fractions <<numerator, denominator>>
Zero == <<0, 1>>
One == <<1, 1>>
AlmostDone == <<95, 100>>
FracEq(a, b) == a[1] * b[2] = b[1] * a[2]

\* the lists of the configuration; one has no library id and one no list_id
ListA == [list_id |-> "t1", collection_name |-> <<"A">>, library_id |-> "L1", type |-> "movies"]
ListB == [list_id |-> "t2", collection_name |-> <<"b">>, library_id |-> "L1", type |-> "shows"]
ListNoLibrary == [list_id |-> "t3", collection_name |-> <<"c">>, library_id |-> "", type |-> "movies"]
ListNoId == [collection_name |-> <<"d">>, library_id |-> "L1", type |-> "movies"]

\* get_trakt_lists(): what TRAKT_LISTS holds
ConfiguredLists ==
    { <<ListA, ListB>>, <<ListB, ListA>>, <<ListNoLibrary, ListA>>, <<ListNoId, ListA>> }

\* entries of the Trakt lists: m1 carries the IMDB id of the first, m2 the TMDB id
\* of the second, s1 the TVDB id of the third
Entry1 == [type |-> "movie", media |-> [title |-> Dune, year |-> 2021,
             ids |-> [trakt |-> 1, imdb |-> TT1, tmdb |-> NoNum, tvdb |-> NoNum]]]
Entry2 == [type |-> "movie", media |-> [title |-> Arrival, year |-> 2016,
             ids |-> [trakt |-> 2, imdb |-> <<>>, tmdb |-> 7, tvdb |-> NoNum]]]
Entry3 == [type |-> "show", media |-> [title |-> Arrival, year |-> 2016,
             ids |-> [trakt |-> 3, imdb |-> <<>>, tmdb |-> NoNum, tvdb |-> 9]]]

\* what Trakt answers for a list
TraktContents == { <<>>, <<Entry1>>, <<Entry1, Entry2>>, <<Entry3, Entry1>> }

\* the libraries of the media server
SyncLibraries ==
    { <<CHOOSE it \in ItemPool : it.Id = "m1">>,
      <<CHOOSE it \in ItemPool : it.Id = "m1", CHOOSE it \in ItemPool : it.Id = "m2",
        CHOOSE it \in ItemPool : it.Id = "s1">> }

\* outcomes of the requests of sync_trakt_list_to_emby before the workers start:
\* GET /System/Info, the Trakt list, the library
SyncNets ==
    { <<>>, <<"status">>, <<"error">>, <<"ok", "status">>, <<"ok", "error">>,
      <<"ok", "ok", "status">> }

\* outcomes of the requests of a worker
WorkerNets == { <<>>, <<"error">> }

\* outcomes of the requests of create_emby_collection_with_movies
CreateNets ==
    { <<>>, <<"status">>, <<"ok", "status">>, <<"ok", "status", "status">>,
      <<"ok", "error", "ok", "ok", "status", "status">> }

InitSync ==
    /\ InitStore
    /\ emby_collections \in { <<>>, <<[Id |-> 1, Name |-> <<"a">>, Items |-> {}]>> }
    /\ emby_library \in SyncLibraries
    /\ last_call = NoCall
    /\ norm_in = <<>>
    /\ norm_out = <<>>
    /\ \E lists \in ConfiguredLists :
          sync = [pc |-> "idle", lists |-> lists, started |-> FALSE, queue |-> <<>>,
                  list |-> EmptyDict, items |-> <<>>, pending |-> {},
                  fetching |-> {}, fetches |-> EmptyDict,
                  emby_items |-> <<>>, resolved |-> {}, writing |-> EmptyDict, processed_count |-> 0, progress |-> <<>>,
                  runs |-> <<>>]

\* the requests for a library among the requests of a call
LibraryRequests(trace) == Cardinality({k \in 1..Len(trace) : trace[k] = "GET /Items"})

\* the run has sent n more requests for the library of (kind, library_id)
Fetched(s, key, n) ==
    IF n = 0 THEN s ELSE [s EXCEPT !.fetches = Put(@, key, Get(@, key, 0) + n)]

\* progress_callback(fraction, ...)
Callback(s, fraction) == [s EXCEPT !.progress = Append(@, fraction)]

\* sync_trakt_list_to_emby ends, by return or by an exception that leaves the loop
\* of sync_all_trakt_lists
EndRun(s, ended, collection_id, failed) ==
    [s EXCEPT !.runs = Append(@, [list |-> s.list, ended |-> ended,
                                  progress |-> s.progress, fetches |-> s.fetches,
                                  collection_id |-> collection_id,
                                  emby_items |-> s.emby_items, failed |-> failed]),
              !.pc = IF ended = "raised" THEN "raised"
                     ELSE IF s.queue = <<>> THEN "done" ELSE "lists"]

\* sync_all_trakt_lists up to its loop: the configuration check and the access token
SyncAllTraktLists ==
    /\ sync.pc = "idle"
    /\ \E env_valid, access_token \in BOOLEAN :
          sync' = IF env_valid /\ access_token
                  THEN [sync EXCEPT !.pc = "lists", !.queue = sync.lists,
                                    !.started = TRUE]
                  ELSE [sync EXCEPT !.pc = "done"]
    /\ UNCHANGED <<storeVars, serverVars, last_call, normVars>>

\* get_trakt_list: the items, [] on another status; the request's exception is not
\* caught
get_trakt_list(st, contents) ==
    [st |-> Request(st, "GET /lists/items"),
     ret |-> IF Outcome(st) = "ok" THEN contents ELSE <<>>,
     raised |-> Outcome(st) = "error"]

\* sync_trakt_list_to_emby from its start to the submission of the workers
SyncTraktListToEmby ==
    /\ sync.pc = "lists"
    /\ \E env_valid \in BOOLEAN, net \in SyncNets, contents \in TraktContents :
          LET trakt_list == Head(sync.queue)
              s0 == [sync EXCEPT !.queue = Tail(@), !.list = trakt_list,
                                 !.items = <<>>, !.pending = {}, !.emby_items = <<>>,
                                 !.fetching = {}, !.fetches = EmptyDict,
                                 !.resolved = {}, !.writing = EmptyDict,
                                 !.processed_count = 0, !.progress = <<>>]
              kind == IF Get(trakt_list, "type", "movies") = "movies"
                      THEN "Movie" ELSE "Series"
              library_id == Get(trakt_list, "library_id", "")
              tested == Request(St(net), "GET /System/Info")
              listed == get_trakt_list(tested, contents)
              fetched == get_emby_library_items(listed.st, kind, library_id, FALSE)
          IN  IF ~env_valid
              THEN /\ sync' = EndRun(Callback(s0, One), "returned", NoCollection, {})
                   /\ UNCHANGED <<storeVars, serverVars>>
              ELSE IF "list_id" \notin DOMAIN trakt_list
                      \/ "collection_name" \notin DOMAIN trakt_list
              THEN /\ sync' = EndRun(s0, "raised", NoCollection, {})
                   /\ UNCHANGED <<storeVars, serverVars>>
              ELSE IF library_id = ""
              THEN /\ sync' = EndRun(Callback(s0, One), "returned", NoCollection, {})
                   /\ UNCHANGED <<storeVars, serverVars>>
              ELSE IF Outcome(St(net)) # "ok"
              THEN /\ sync' = EndRun(Callback(Callback(s0, Zero), One), "returned",
                                     NoCollection, {})
                   /\ UNCHANGED <<storeVars, serverVars>>
              ELSE IF listed.raised
              THEN /\ sync' = EndRun(Callback(s0, Zero), "raised", NoCollection, {})
                   /\ UNCHANGED <<storeVars, serverVars>>
              ELSE IF listed.ret = <<>>
              THEN /\ sync' = EndRun(Callback(Callback(s0, Zero), One), "returned",
                                     NoCollection, {})
                   /\ UNCHANGED <<storeVars, serverVars>>
              ELSE /\ sync' = [Fetched(Callback(Callback(Callback(Callback(s0, Zero),
                                                                  Zero), Zero), Zero),
                                        <<kind, library_id>>,
                                        LibraryRequests(fetched.st.trace))
                                 EXCEPT !.pc = "workers", !.items = listed.ret,
                                        !.pending = 1..Len(listed.ret)]
                   /\ Commit(fetched.st)
    /\ UNCHANGED <<last_call, normVars>>

\* the main thread takes the result r of the worker of entry i
WorkerDone(i, r) ==
    /\ Commit(r.st)
    /\ sync' = Callback(Fetched([sync EXCEPT !.pending = @ \ {i},
                                             !.fetching = @ \ {i},
                                             !.writing = Del(@, i),
                                             !.emby_items = IF r.ret # <<>>
                                                            THEN Append(@, r.ret[1].id)
                                                            ELSE @,
                                             !.resolved = IF r.ret # <<>>
                                                          THEN @ \cup {i} ELSE @,
                                             !.processed_count = @ + 1],
                                <<KindOf(sync.items[i]), sync.list.library_id>>,
                                LibraryRequests(r.st.trace)),
                        <<sync.processed_count + 1, Len(sync.items)>>)

\* process_item calls add_emby_id_mapping for the entry: it has a match, a Trakt id
\* and no stored mapping
WritesMapping(item, r) ==
    /\ r.ret # <<>>
    /\ Get(item.media.ids, "trakt", NoNum) # NoNum
    /\ get_emby_id_from_mapping(St(<<>>), IF item.type = "movie" THEN "movie" ELSE "show",
                                Get(item.media.ids, "trakt", NoNum)) = NoEmbyId

\* the worker of entry i has run process_item up to mapping_copy =
\* dict(_emby_id_mapping) in save_emby_id_mappings: its record is in the Mapping
\* Store, its copy waits to be written, the file is as it was
MappingCopied(i, r) ==
    /\ Commit([r.st EXCEPT !.mapping_file = mapping_file])
    /\ sync' = [sync EXCEPT !.fetching = @ \ {i},
                            !.writing = Put(@, i, [mapping_copy |-> r.st.emby_id_mapping,
                                                   ret |-> r.ret,
                                                   trace |-> r.st.trace])]

\* the worker of entry i has computed r: it stops before its write of the mapping
\* file if it has one, otherwise it finishes
WorkerRan(i, r) ==
    IF WritesMapping(sync.items[i], r) THEN MappingCopied(i, r) ELSE WorkerDone(i, r)

\* process_item reaches its get_emby_library_items call and finds the library of
\* its entry not cached
CacheMiss(item) ==
    /\ HasUsableIds(item.media.ids)
    /\ \/ Get(item.media.ids, "trakt", NoNum) = NoNum
       \/ get_emby_id_from_mapping(St(<<>>), IF item.type = "movie" THEN "movie"
                                             ELSE "show",
                                   Get(item.media.ids, "trakt", NoNum)) = NoEmbyId
    /\ <<KindOf(item), sync.list.library_id>> \notin DOMAIN library_cache

\* a worker runs process_item on its entry without waiting for the media server;
\* the workers complete in any order
ProcessItemWorker ==
    /\ sync.pc = "workers"
    /\ \E i \in (sync.pending \ sync.fetching) \ DOMAIN sync.writing, net \in WorkerNets :
          /\ ~CacheMiss(sync.items[i])
          /\ WorkerRan(i, process_item(St(net), sync.items[i], sync.list.library_id,
                                        sync.list.collection_name))
    /\ UNCHANGED <<last_call, normVars>>

\* a worker finds its library not cached and sends its request; the other threads
\* run while it waits for the answer
ProcessItemMiss ==
    /\ sync.pc = "workers"
    /\ \E i \in (sync.pending \ sync.fetching) \ DOMAIN sync.writing :
          /\ CacheMiss(sync.items[i])
          /\ sync' = [sync EXCEPT !.fetching = @ \cup {i}]
    /\ UNCHANGED <<storeVars, serverVars, last_call, normVars>>

\* the state in which a waiting worker gets its answer: it is past the cache test
Waiting(st, key) == [st EXCEPT !.library_cache = Del(@, key)]

\* the result of a worker that waited: its answer, if it got one, is the entry of
\* the cache, and the entries the other threads wrote meanwhile stay
Answered(r, key) ==
    [st |-> [r.st EXCEPT !.library_cache =
                IF key \in DOMAIN @ THEN Put(library_cache, key, @[key])
                ELSE library_cache],
     ret |-> r.ret]

\* a waiting worker gets the answer of the media server and finishes process_item
ProcessItemFetch ==
    /\ sync.pc = "workers"
    /\ \E i \in sync.fetching, net \in WorkerNets :
          WorkerRan(i, Answered(process_item(
                                     Waiting(St(net), <<KindOf(sync.items[i]),
                                                        sync.list.library_id>>),
                                     sync.items[i], sync.list.library_id,
                                     sync.list.collection_name),
                                 <<KindOf(sync.items[i]), sync.list.library_id>>))
    /\ UNCHANGED <<last_call, normVars>>

\* a worker writes its copy of the Mapping Store over emby_id_mappings.json and
\* returns from process_item; the main thread takes its result
SaveEmbyIdMappings ==
    /\ sync.pc = "workers"
    /\ \E i \in DOMAIN sync.writing :
          WorkerDone(i, [st |-> [St(<<>>) EXCEPT
                                   !.mapping_file = sync.writing[i].mapping_copy,
                                   !.trace = sync.writing[i].trace],
                         ret |-> sync.writing[i].ret])
    /\ UNCHANGED <<last_call, normVars>>

\* the end of sync_trakt_list_to_emby once create_emby_collection_with_movies
\* has returned r
CollectionDone(r) ==
    IF r.ret # NoCollection
    THEN /\ Commit(save_missing_items(r.st))
         /\ sync' = EndRun(Callback(Callback(Callback(sync, AlmostDone), One), One),
                           "returned", r.ret, r.st.failed)
    ELSE /\ Commit(r.st)
         /\ sync' = EndRun(Callback(Callback(sync, AlmostDone), One),
                           "returned", NoCollection, r.st.failed)

\* sync_trakt_list_to_emby after the last worker
CreateCollection ==
    /\ sync.pc = "workers"
    /\ sync.pending = {}
    /\ IF sync.emby_items = <<>>
       THEN /\ sync' = EndRun(Callback(sync, One), "returned", NoCollection, {})
            /\ UNCHANGED <<storeVars, serverVars>>
       ELSE \E net \in CreateNets :
               CollectionDone(create_emby_collection_with_movies(
                                  St(net), sync.list.collection_name, sync.emby_items))
    /\ UNCHANGED <<last_call, normVars>>

NextSync ==
    \/ SyncAllTraktLists
    \/ SyncTraktListToEmby
    \/ ProcessItemWorker
    \/ ProcessItemMiss
    \/ ProcessItemFetch
    \/ SaveEmbyIdMappings
    \/ CreateCollection

SpecSync == InitSync /\ [][NextSync]_vars

\* the collection with the given id
CollectionById(id) ==
    emby_collections[FirstIndex(emby_collections, LAMBDA c : c.Id = id)]

\* C1: for every sync_trakt_list_to_emby call that ended with a collection id, every
\* Emby id resolved in that call and not reported as failed to add is a member of
\* that collection, whether the call created the collection or found it existing.
C1_ResolvedAreMembers ==
    \A k \in 1..Len(sync.runs) :
        sync.runs[k].collection_id # NoCollection =>
            \A id \in SetOf(sync.runs[k].emby_items) \ sync.runs[k].failed :
                id \in CollectionById(sync.runs[k].collection_id).Items

\* C9: when sync_all_trakt_lists has entered its loop and ended, every configured
\* list has had its sync_trakt_list_to_emby call, whatever failed for the lists
\* before it.
C9_LaterListsSynced ==
    (sync.pc \in {"done", "raised"} /\ sync.started) =>
        Len(sync.runs) = Len(sync.lists)

\* C10: every sync_trakt_list_to_emby call that has ended made a last progress
\* callback and its fraction was 1.0.
C10_FinalProgress ==
    \A k \in 1..Len(sync.runs) :
        /\ sync.runs[k].progress # <<>>
        /\ FracEq(sync.runs[k].progress[Len(sync.runs[k].progress)], One)

\* C20: in a run of sync_trakt_list_to_emby, counted from its pre-fetch to its end,
\* the media server gets at most one request for the library of each
\* (kind, library id), under every interleaving of the workers.
C20_FetchedOnce ==
    /\ \A key \in DOMAIN sync.fetches : sync.fetches[key] <= 1
    /\ \A k \in 1..Len(sync.runs) :
          \A key \in DOMAIN sync.runs[k].fetches : sync.runs[k].fetches[key] <= 1

\* the requests that create a collection
CreateRequests == { "POST /Collections", "POST /Items/Id/Collection" }

\* the collections of the media server that carry the name, compared without case
SameName(collections, collection_name) ==
    {i \in 1..Len(collections) : Lower(collections[i].Name) = Lower(collection_name)}

\* C22: create_emby_collection_with_movies sends a create request only when the
\* media server has no collection of that name, compared without case, whatever the
\* outcome of its requests; and after any sequence of syncs the media server holds
\* at most one collection per case-insensitive name.
C22_OneCollectionPerName ==
    /\ \A net \in CreateNets, list \in {ListA, ListB} :
          LET r == create_emby_collection_with_movies(St(net), list.collection_name,
                                                      <<"m1">>)
          IN  (\E k \in 1..Len(r.st.trace) : r.st.trace[k] \in CreateRequests) =>
                  SameName(emby_collections, list.collection_name) = {}
    /\ \A i \in 1..Len(emby_collections) :
          SameName(emby_collections, emby_collections[i].Name) = {i}

\* C23: for every entry without a stored mapping for which two of the id strategies
\* match different items of the library, search_movie_in_emby and
\* search_tv_show_in_emby return what the first matching strategy finds, in the
\* order IMDB in metadata, IMDB in path, TMDB, TVDB (shows).
C23_SearchStrategyOrder ==
    \A item \in TraktItems : \A list \in ListsOf(item) : \A net \in OneRequest :
        LET media == item.media
            ids == media.ids
            trakt_id == Get(ids, "trakt", NoNum)
            s == IF item.type = "movie"
                 THEN search_movie_in_emby(St(net), media.title, media.year, ids,
                                           list.library_id)
                 ELSE search_tv_show_in_emby(St(net), media.title, media.year, ids,
                                             list.library_id)
            library_items == get_emby_library_items(St(net), KindOf(item),
                                                    list.library_id, FALSE).ret
            found == << MatchImdbMetadata(library_items, ids),
                        MatchImdbPath(library_items, ids),
                        MatchTmdb(library_items, ids),
                        MatchTvdb(library_items, ids, item.type) >>
            hits == {k \in 1..4 : found[k] # NoEmbyId}
            first == CHOOSE k \in hits : \A j \in hits : k <= j
        IN  (/\ trakt_id = NoNum
                \/ MappingKey(item.type, trakt_id) \notin DOMAIN emby_id_mapping
             /\ \E j, k \in hits : found[j] # found[k]) =>
                s.ret = found[first]

\* C24: for every entry on which process_item runs its strategies (usable ids, no
\* stored mapping) and which no id strategy matches, process_item returns what the
\* title fallback of the search functions returns: the first library item whose
\* normalized title equals the entry's and whose production year is absent or
\* within one year of the entry's (any item when the entry has no year), otherwise
\* the best substring (0.9) or word-overlap (> 0.6) candidate, otherwise None.
C24_TitleFallback ==
    \A item \in TraktItems : \A list \in ListsOf(item) : \A net \in OneRequest :
        LET media == item.media
            ids == media.ids
            trakt_id == Get(ids, "trakt", NoNum)
            p == process_item(St(net), item, list.library_id, list.collection_name)
            library_items == get_emby_library_items(St(net), KindOf(item),
                                                    list.library_id, FALSE).ret
            fallback == FuzzyTitleMatch(library_items, media.title, media.year)
        IN  (/\ HasUsableIds(ids)
             /\ trakt_id = NoNum
                \/ MappingKey(item.type, trakt_id) \notin DOMAIN emby_id_mapping
             /\ MatchImdbMetadata(library_items, ids) = NoEmbyId
             /\ MatchImdbPath(library_items, ids) = NoEmbyId
             /\ MatchTmdb(library_items, ids) = NoEmbyId
             /\ MatchTvdb(library_items, ids, item.type) = NoEmbyId) =>
                p.ret = IF fallback = NoEmbyId THEN <<>>
                        ELSE <<[id |-> fallback, type |-> item.type]>>

\* C25: for every show entry without a stored mapping which the IMDB and TMDB
\* strategies do not match and whose TVDB id is the Tvdb provider id of an item of
\* the library, process_item returns that item, also when the TVDB id is the only
\* id of the entry.
C25_TvdbMatch ==
    \A item \in TraktItems : \A list \in ListsOf(item) : \A net \in OneRequest :
        LET ids == item.media.ids
            trakt_id == Get(ids, "trakt", NoNum)
            p == process_item(St(net), item, list.library_id, list.collection_name)
            library_items == get_emby_library_items(St(net), KindOf(item),
                                                    list.library_id, FALSE).ret
        IN  (/\ item.type = "show"
             /\ trakt_id = NoNum
                \/ MappingKey(item.type, trakt_id) \notin DOMAIN emby_id_mapping
             /\ MatchImdbMetadata(library_items, ids) = NoEmbyId
             /\ MatchImdbPath(library_items, ids) = NoEmbyId
             /\ MatchTmdb(library_items, ids) = NoEmbyId
             /\ MatchTvdb(library_items, ids, item.type) # NoEmbyId) =>
                p.ret = <<[id |-> MatchTvdb(library_items, ids, item.type),
                           type |-> item.type]>>

\* C26: for every Unresolved record, recheck_missing_item with a manual id that the
\* media server verifies, all requests succeeding, leaves the item a member of a
\* collection of every name in the record's membership set: a collection that does
\* not exist yet is created.
C26_ManualAddsToEvery ==
    \A item_index \in 0..(Len(missing_items) - 1) :
        LET r == recheck_missing_item(St(<<>>), item_index, "m1")
            collections == RecheckCollections(At(missing_items, item_index))
        IN  \A c \in 1..Len(collections) :
                \E k \in SameName(r.st.emby_collections, collections[c].name) :
                    "m1" \in r.st.emby_collections[k].Items

(***************************************************************************)
(* The bulk selection of the missing-items page                            *)
(***************************************************************************)
\* the checkboxes the page shows for a record: one under each collection the
\* record names, one for a record in the old format
Checkboxes(item) ==
    IF Get(item, "collections", <<>>) # <<>>
    THEN Cardinality({Get(item.collections[c], "name", <<"Unknown">>) :
                         c \in 1..Len(item.collections)})
    ELSE 1

\* selected_items: the position of a record once for every ticked checkbox of it,
\* for the records from position i (from 1) on
RECURSIVE SelectedFrom(_, _)
SelectedFrom(missing, i) ==
    IF i > Len(missing) THEN {<<>>}
    ELSE { [k \in 1..ticked |-> i - 1] \o rest :
             ticked \in 0..Checkboxes(missing[i]), rest \in SelectedFrom(missing, i + 1) }

SelectedItems(missing) == SelectedFrom(missing, 1)

\* C29: for every selection the bulk-select page can hand to ignore_missing_items,
\* the records left in the Unresolved registry are exactly those whose position
\* before the call is not among the given indices, in their order, and every
\* record moved to the Ignored registry was at one of the given positions; also
\* when a position occurs twice because its record is ticked under two collections.
C29_OnlyGivenPositions ==
    \A item_indices \in SelectedItems(missing_items) :
        LET r == ignore_missing_items(St(<<>>), item_indices)
            moved == SubSeq(r.st.ignored_items, Len(ignored_items) + 1,
                            Len(r.st.ignored_items))
        IN  /\ r.st.missing_items = Without(missing_items, SetOf(item_indices))
            /\ Len(moved) = Cardinality(SetOf(item_indices))

\* the records of a registry that carry the Trakt id and are of the kind
OfKind(registry, trakt_id, kind) ==
    {i \in 1..Len(registry) : /\ TraktIdOf(registry[i]) = trakt_id
                              /\ Get(registry[i], "type", "") = kind}

\* C30: for every entry with a Trakt id that has no record of its own kind in the
\* Unresolved or the Ignored registry, add_to_missing_items appends a record of
\* that kind and leaves the other records as they were, also when a record of the
\* other kind carries the same Trakt id in either registry.
C30_KindsApart ==
    \A kind \in {"movie", "show"}, trakt_id \in {1, 2} :
        LET r == add_to_missing_items(St(<<>>),
                                      [title |-> Dune, year |-> 2021,
                                       ids |-> [trakt |-> trakt_id]],
                                      kind, <<"A">>, "L1", NoMatchReason)
        IN  (/\ OfKind(missing_items, trakt_id, kind) = {}
             /\ OfKind(ignored_items, trakt_id, kind) = {}) =>
                /\ r.ret
                /\ Len(r.st.missing_items) = Len(missing_items) + 1
                /\ SubSeq(r.st.missing_items, 1, Len(missing_items)) = missing_items
                /\ OfKind(r.st.missing_items, trakt_id, kind) = {Len(missing_items) + 1}
                /\ r.st.ignored_items = ignored_items

(***************************************************************************)
(* Properties of the stores after a run                                    *)
(***************************************************************************)
\* sync_trakt_list_to_emby has just returned: no other call has started since
Returned ==
    /\ sync.pc \in {"lists", "done"}
    /\ sync.runs # <<>>
    /\ sync.runs[Len(sync.runs)].ended = "returned"

\* the Unresolved records that stand for the entry
RecordsOf(item) ==
    {k \in 1..Len(missing_items) :
        SameIdentity(missing_items[k], [title |-> item.media.title,
                                        year |-> item.media.year,
                                        ids |-> item.media.ids])}

\* C21: for every interleaving of the workers, once sync_trakt_list_to_emby has
\* returned, emby_id_mappings.json holds the Mapping Store and missing_items.json
\* the Unresolved registry, the Mapping Store has a record for every resolved entry
\* of the list with a Trakt id, and the Unresolved registry has a record for every
\* unresolved entry of the list.
C21_NoLostUpdate ==
    Returned =>
        /\ mapping_file = emby_id_mapping
        /\ missing_file = missing_items
        /\ \A i \in 1..Len(sync.items) :
              LET item == sync.items[i]
                  trakt_id == Get(item.media.ids, "trakt", NoNum)
              IN  IF i \in sync.resolved
                  THEN trakt_id # NoNum =>
                          MappingKey(item.type, trakt_id) \in DOMAIN emby_id_mapping
                  ELSE RecordsOf(item) # {}

\* C27: when sync_trakt_list_to_emby has returned, the Unresolved registry holds no
\* record that stands for an entry the run resolved, by its stored mapping or by a
\* match, whatever earlier runs recorded.
C27_ResolvedNotUnresolved ==
    Returned => \A i \in sync.resolved : RecordsOf(sync.items[i]) = {}

\* a <= b for progress fractions
FracLe(a, b) == a[1] * b[2] <= b[1] * a[2]

\* the fractions of the callbacks never decrease
NeverDecreases(progress) ==
    \A i, j \in 1..Len(progress) : i < j => FracLe(progress[i], progress[j])

\* C28: in every sync_trakt_list_to_emby run, ended or under way, the fractions
\* passed to progress_callback never decrease, and while the run is still at its
\* workers or has its collection call ahead no callback has passed 1.0.
C28_ProgressMonotone ==
    /\ NeverDecreases(sync.progress)
    /\ \A k \in 1..Len(sync.runs) : NeverDecreases(sync.runs[k].progress)
    /\ sync.pc = "workers" =>
          \A i \in 1..Len(sync.progress) : ~FracEq(sync.progress[i], One)

====
